---- MODULE Spec2Model ----
(***************************************************************************)
(* Client-side state reconciliation of the shopping list (src/App.tsx):    *)
(* the Item Store, Category Registry, Purchase Log and Set Registry held   *)
(* in React state, the handlers that mutate them, the rows of the remote   *)
(* datastore and the realtime events that flow back to the client.         *)
(*                                                                         *)
(* Strings are sequences of one-character strings so that trim,            *)
(* toLowerCase and the capitalisation of the first letter are computed.    *)
(* Instants are integers; a calendar day is TicksPerDay instants long.     *)
(***************************************************************************)
EXTENDS Integers, Sequences, FiniteSets, TLC

VARIABLES
  items,                  \* useState<ProductItem[]>        (App.tsx:131)
  categories,             \* useState<CategoryDef[]>        (App.tsx:126)
  sets,                   \* useState<ShoppingSet[]>        (App.tsx:132)
  logs,                   \* useState<PurchaseLog[]>        (App.tsx:136)
  familyId,               \* useState<number | null>        (App.tsx:161)
  phase,                  \* position of the mount effects and of authAndSync
  lastCompletedItem,      \* useState<string | null>        (App.tsx:205)
  showCompletedUndoToast, \* useState(false)                (App.tsx:207)
  lastDeletedItem,        \* useState<ProductItem | null>   (App.tsx:204)
  showUndoToast,          \* useState(false)                (App.tsx:206)
  deleteConfirmModal,     \* categoryId of the confirmation modal (App.tsx:188)
  confirmDelete,          \* persisted preference           (App.tsx:145)
  categoryModal,          \* isCategoryModalOpen and editingCategory (App.tsx:176, 219)
  itemToUpdateAfterCategory, \* useState<{id?, name, onList} | null> (App.tsx:201)
  isAiEnabled,            \* persisted preference           (App.tsx:143)
  isAiLoading,            \* useState(false)                (App.tsx:153)
  aiRequest,              \* the categorizeProduct call awaited at App.tsx:566
  rows,                   \* the items table of the remote datastore
  net,                    \* realtime events not yet delivered to this client
  now,                    \* Date.now()
  todayStr,               \* start of the day the rollover effect ran on (App.tsx:398)
  nextId,                 \* source of fresh ids (Date.now() + Math.random())
  editingItem,            \* useState<ProductItem | null>   (App.tsx:215)
  isEditModalOpen,        \* useState(false)                (App.tsx:177)
  toast,                  \* useState<{id, message, isError} | null> (App.tsx:250)
  online,                 \* whether the datastore serves the requests sent to it
  failing,                \* requests in flight that the datastore will not serve
  tgUser,                 \* useState<TelegramUser | null>  (App.tsx:157), its id
  familyMembers,          \* useState<FamilyMember[]>       (App.tsx:158), their ids
  isOwner,                \* useState(false)                (App.tsx:160)
  family,                 \* the family of MyFamily in the remote datastore
  currentModelIndex,      \* let currentModelIndex = 0       (App.tsx:2822)
  calls,                  \* the callWithRetry invocations under way (App.tsx:2842)
  selectedCategoryFilter, \* useState<string>('All')        (App.tsx:154)
  isRecording,            \* the speech recognition started by startVoiceDictation
  voiceRequest,           \* the parseDictatedText call awaited at App.tsx:730
  doneAt,                 \* history: instant of the completion that made a row bought
  lastOp                  \* history: the handler that ran last and what it ran on,
                          \* NoOp after the handlers no property speaks of

vars == <<items, categories, sets, logs, familyId, phase, lastCompletedItem,
          showCompletedUndoToast, lastDeletedItem, showUndoToast,
          deleteConfirmModal, confirmDelete, categoryModal,
          itemToUpdateAfterCategory, isAiEnabled, isAiLoading, aiRequest,
          rows, net, now, todayStr, nextId, editingItem, isEditModalOpen, toast,
          online, failing, tgUser, familyMembers, isOwner, family,
          currentModelIndex, calls, selectedCategoryFilter, isRecording,
          voiceRequest, doneAt, lastOp>>

----------------------------------------------------------------------------
(* Bounds of the model *)

MaxCount  == 2    \* purchaseCount of an item
MaxLog    == 3    \* tuples in one Purchase Log entry
MaxCats   == 3    \* categories in the Category Registry
MaxNet    == 1    \* undelivered realtime events, requests in flight
MaxNow    == 4    \* last instant of the clock
MaxIds    == 2    \* fresh ids handed out
MaxAiIds  == 2    \* further ids a request that was awaiting may still take
MaxCalls  == 2    \* callWithRetry invocations under way at once

(* Constants of the program *)

DEPT_NONE   == 0     \* 'dept_none', the sentinel category id
Undefined   == 0     \* undefined / null where a number or an instant is expected
TicksPerDay == 2     \* instants per calendar day
MyFamily    == 1     \* id of the family returned by authUser
NewFamily   == 2     \* id of the family leaveFamily creates
RemoteId    == 100   \* id of a row created by another family member
All         == -3    \* 'All', the filter that names no category
NullUser    == -2    \* tgUser of a page opened without the Telegram WebApp
Me          == 7     \* telegram id of this client's user
Spouse      == 8     \* telegram id of another member of the family
Child       == 9     \* telegram id of a third member of the family

----------------------------------------------------------------------------
(* Strings *)

\* String.prototype.toLowerCase / toUpperCase on one character
Lower(c) == CASE c = "A" -> "a" [] c = "B" -> "b" [] c = "P" -> "p"
              [] c = "D" -> "d" [] c = "V" -> "v" [] OTHER -> c
Upper(c) == CASE c = "a" -> "A" [] c = "b" -> "B" [] c = "p" -> "P"
              [] c = "d" -> "D" [] c = "v" -> "V" [] OTHER -> c

toLowerCase(s) == [i \in 1..Len(s) |-> Lower(s[i])]

RECURSIVE trimStart(_)
trimStart(s) == IF s # <<>> /\ Head(s) = " " THEN trimStart(Tail(s)) ELSE s

RECURSIVE trimEnd(_)
trimEnd(s) ==
  IF s # <<>> /\ s[Len(s)] = " " THEN trimEnd(SubSeq(s, 1, Len(s) - 1)) ELSE s

trim(s) == trimEnd(trimStart(s))

\* name.trim().charAt(0).toUpperCase() + name.trim().slice(1)
capName(name) ==
  LET t == trim(name)
  IN  IF t = <<>> THEN <<>> ELSE <<Upper(t[1])>> \o Tail(t)

----------------------------------------------------------------------------
(* Time *)

\* new Date(t).setHours(0, 0, 0, 0)
startOfDay(t) == t - (t % TicksPerDay)

----------------------------------------------------------------------------
(* Sequences *)

MinOf(S) == CHOOSE i \in S : \A j \in S : i <= j
MaxOf(S) == CHOOSE i \in S : \A j \in S : j <= i

\* Array.prototype.filter on the positions that satisfy keep
RECURSIVE FilterIdx(_, _, _)
FilterIdx(s, keep, i) ==
  IF i > Len(s) THEN <<>>
  ELSE (IF i \in keep THEN <<s[i]>> ELSE <<>>) \o FilterIdx(s, keep, i + 1)

\* newItems.splice(k, 1)
RemoveAt(s, k) == SubSeq(s, 1, k - 1) \o SubSeq(s, k + 1, Len(s))

\* items.find(i => i.name === lname): the name compared as it is
FindByNameExact(its, lname) ==
  LET S == {i \in 1..Len(its) : its[i].name = lname}
  IN  IF S = {} THEN 0 ELSE MinOf(S)

\* items.find(i => i.name.toLowerCase() === lname): its position, 0 if none
FindByName(its, lname) ==
  LET S == {i \in 1..Len(its) : toLowerCase(its[i].name) = lname}
  IN  IF S = {} THEN 0 ELSE MinOf(S)

\* items.find(i => i.id === id): its position, 0 if none
FindById(its, id) ==
  LET S == {i \in 1..Len(its) : its[i].id = id}
  IN  IF S = {} THEN 0 ELSE MinOf(S)

----------------------------------------------------------------------------
(* Records *)

NullCat    == -1     \* a row whose category column is null or empty
ForeignCat == 200    \* a category id that only another member's client knows

\* ProductItem (src/unnamed/part_000); completedAt = Undefined when absent
ProductItem(id, name, categoryId, completed, onList, purchaseCount, completedAt) ==
  [id |-> id, name |-> name, categoryId |-> categoryId, completed |-> completed,
   onList |-> onList, purchaseCount |-> purchaseCount, completedAt |-> completedAt]

\* DbItem (App.tsx:2500)
DbItem(id, text, is_bought, category, family_id, purchase_count) ==
  [id |-> id, text |-> text, is_bought |-> is_bought, category |-> category,
   family_id |-> family_id, purchase_count |-> purchase_count]

\* the category of a row as the client reads it: ri.category || 'dept_none'
categoryOrNone(c) == IF c = NullCat THEN DEPT_NONE ELSE c

\* what the system category is when the registry holds none (App.tsx:518)
systemNone == [id |-> DEPT_NONE, name |-> <<"n">>, emoji |-> "white"]

\* null where a ProductItem is expected: no item has the id Undefined
NoItem == ProductItem(Undefined, <<>>, DEPT_NONE, FALSE, FALSE, 0, Undefined)

\* null where the item awaiting a new category is expected
NoPending == [set |-> FALSE, id |-> Undefined, name |-> <<>>, onList |-> FALSE]

\* toast: null, or the kind of the notification showToast put up (App.tsx:431-434)
NoToast == "none"
showToast(isError) == IF isError THEN "error" ELSE "info"

NoOp == [op |-> "none", id |-> 0, pre |-> 0, arg |-> 0]
Op(op, id, pre, arg) == [op |-> op, id |-> id, pre |-> pre, arg |-> arg]

----------------------------------------------------------------------------
(* The remote datastore: upsertItem, deleteItem and the realtime channel *)

RowIds(rs) == {r.id : r \in rs}

\* supabase.from('items').upsert(item, { onConflict: 'id' })
upsertRow(rs, r) == {x \in rs : x.id # r.id} \cup {r}

\* supabase.from('items').delete().eq('id', itemId)
deleteRow(rs, id) == {x \in rs : x.id # id}

\* the event postgres_changes emits for a write; own marks an echo of this client
upsertEvent(rs, r, own) ==
  [type |-> IF r.id \in RowIds(rs) THEN "UPDATE" ELSE "INSERT", row |-> r, own |-> own]

deleteEvent(r, own) == [type |-> "DELETE", row |-> r, own |-> own]

\* One request of a handler: [kind |-> "upsert" | "delete", row |-> DbItem]
upsertItem(r) == [kind |-> "upsert", row |-> r]
deleteItemApi(r) == [kind |-> "delete", row |-> r]

\* The datastore after the requests in out, in order, the events they emit
\* and the instants of the completions behind the bought rows. acc is
\* [rows, net, doneAt]; an event reaches this client when it is subscribed
\* (familyId is set) and the row is of the subscribed family.
RECURSIVE applyRequests(_, _, _)
applyRequests(acc, out, own) ==
  IF out = <<>> THEN acc
  ELSE LET q == Head(out)
           rs == acc.rows
           present == q.row.id \in RowIds(rs)
           wasBought == \E x \in rs : x.id = q.row.id /\ x.is_bought
           rs2 == IF q.kind = "upsert" THEN upsertRow(rs, q.row) ELSE deleteRow(rs, q.row.id)
           ev  == IF q.kind = "upsert" THEN <<upsertEvent(rs, q.row, own)>>
                  ELSE IF present THEN <<deleteEvent(q.row, own)>> ELSE <<>>
           heard == familyId # Undefined /\ q.row.family_id = familyId
           others == {d \in acc.doneAt : d.id # q.row.id}
           d2 == IF q.kind = "upsert" /\ q.row.is_bought
                 THEN (IF wasBought THEN acc.doneAt ELSE others \cup {[id |-> q.row.id, at |-> now]})
                 ELSE others
       IN  applyRequests([rows |-> rs2,
                          net |-> IF heard THEN acc.net \o ev ELSE acc.net,
                          doneAt |-> d2],
                         Tail(out), own)

----------------------------------------------------------------------------
(* Realtime callbacks (App.tsx:337-364) *)

\* On INSERT, without the check for an item of that id
onInsertUnchecked(prev, newItem) ==
  Append(prev, ProductItem(newItem.id, newItem.text, categoryOrNone(newItem.category),
                           newItem.is_bought, TRUE, newItem.purchase_count, Undefined))

\* On INSERT
onInsert(prev, newItem) ==
  IF FindById(prev, newItem.id) # 0 THEN prev
  ELSE Append(prev, ProductItem(newItem.id, newItem.text, categoryOrNone(newItem.category),
                                newItem.is_bought, TRUE, newItem.purchase_count, Undefined))

\* On UPDATE, building the item anew from the row as On INSERT does
onUpdateAnew(prev, updatedItem) ==
  [k \in 1..Len(prev) |->
     IF prev[k].id = updatedItem.id
     THEN ProductItem(updatedItem.id, updatedItem.text, categoryOrNone(updatedItem.category),
                      updatedItem.is_bought, TRUE, updatedItem.purchase_count, Undefined)
     ELSE prev[k]]

\* On UPDATE
onUpdate(prev, updatedItem) ==
  [k \in 1..Len(prev) |->
     IF prev[k].id = updatedItem.id
     THEN [prev[k] EXCEPT !.name = updatedItem.text,
                          !.categoryId = categoryOrNone(updatedItem.category),
                          !.completed = updatedItem.is_bought,
                          !.purchaseCount = updatedItem.purchase_count]
     ELSE prev[k]]

\* On DELETE
onDelete(prev, deletedId) ==
  FilterIdx(prev, {k \in 1..Len(prev) : prev[k].id # deletedId}, 1)

\* the merge of one realtime event into the Item Store
mergeEvent(prev, e) ==
  CASE e.type = "INSERT" -> onInsert(prev, e.row)
    [] e.type = "UPDATE" -> onUpdate(prev, e.row)
    [] OTHER             -> onDelete(prev, e.row.id)

----------------------------------------------------------------------------
(* finalizeAddItem (App.tsx:458-507) *)

\* the requested onList alone
requestedOnList(onList, existing) == onList

\* const updatedOnList = onList || existing.onList (App.tsx:463)
updatedOnList(onList, existing) == onList \/ existing.onList

\* the category supplied, whatever it is
suppliedCategory(categoryId, old) == categoryId

\* categoryId !== 'dept_none' ? categoryId : i.categoryId (App.tsx:469, 478)
mergedCategory(categoryId, old) == IF categoryId # DEPT_NONE THEN categoryId ELSE old

\* the merge that leaves completed and completedAt as they are
mergedItemStillCompleted(i, existing, categoryId, onList) ==
  [i EXCEPT !.onList = updatedOnList(onList, existing),
            !.categoryId = mergedCategory(categoryId, @)]

\* what the setItems updater makes of the item of existing's id (App.tsx:464-470)
mergedItem(i, existing, categoryId, onList) ==
  [i EXCEPT !.onList = updatedOnList(onList, existing),
            !.completed = IF onList THEN FALSE ELSE @,
            !.completedAt = IF onList THEN Undefined ELSE @,
            !.categoryId = mergedCategory(categoryId, @)]

\* the row sent for an existing item (App.tsx:474-481)
mergedRow(existing, fam, categoryId, onList) ==
  DbItem(existing.id, existing.name, IF onList THEN FALSE ELSE existing.completed,
         mergedCategory(categoryId, existing.categoryId), fam, existing.purchaseCount)

\* if (familyId && onList): the row is sent (App.tsx:473, 496)
synced(fam, onList) == fam # Undefined /\ onList

\* One call. snap and fam are the items array and the familyId the handler
\* closed over, st the state the
\* calls of one handler build up: the items the updaters have produced so far,
\* the requests issued and the next fresh id.
finalizeAddItem(snap, fam, st, name, categoryId, onList) ==
  LET cap == capName(name)
      k   == FindByName(snap, toLowerCase(cap))
  IN  IF k # 0
      THEN LET existing == snap[k]
           IN  [items |-> [j \in 1..Len(st.items) |->
                             IF st.items[j].id = existing.id
                             THEN mergedItem(st.items[j], existing, categoryId, onList)
                             ELSE st.items[j]],
                out |-> IF synced(fam, updatedOnList(onList, existing))
                        THEN Append(st.out, upsertItem(mergedRow(existing, fam, categoryId,
                                                                 onList)))
                        ELSE st.out,
                nid |-> st.nid]
      ELSE LET newItem == ProductItem(st.nid, cap, categoryOrNone(categoryId), FALSE,
                                      onList, 0, Undefined)
           IN  [items |-> <<newItem>> \o st.items,
                out |-> IF synced(fam, onList)
                        THEN Append(st.out, upsertItem(DbItem(newItem.id, newItem.name,
                                      newItem.completed, newItem.categoryId, fam, 0)))
                        ELSE st.out,
                nid |-> st.nid + 1]

\* the state a handler starts its calls from
Start == [items |-> items, out |-> <<>>, nid |-> nextId]

\* how many items of its carry the name (compared in lower case)
CountName(its, lname) == Cardinality({k \in 1..Len(its) : toLowerCase(its[k].name) = lname})

----------------------------------------------------------------------------
(* Inputs *)

\* what the user types or dictates as a product name
InputNames == {<<"a", "p">>, <<" ", "A", "P">>, <<"b">>}

\* the names of rows written by another member's client
RemoteNames == {<<"A", "p">>, <<"B">>}

----------------------------------------------------------------------------
(* The AI gateway: MODELS, callWithRetry (App.tsx:2820-2890) *)

\* const MODELS
MODELS == <<"gemini-2.0-flash", "gemini-1.5-flash">>

\* the defaults of the parameters retries and delay; delay in half milliseconds,
\* so that delay * 1.5 stays a whole number over all the retries
DefaultRetries == 5
DefaultDelay   == 4000

CallIds == 1..MaxCalls

\* status: "idle" no call, "running" fn() awaited, "waiting" the setTimeout of
\* the retry awaited, "done" the promise resolved, "failed" it rejected;
\* from, switches and delays are history: the model index the call started
\* with, the attempts it made after switching the model, its delayed retries
IdleCall == [status |-> "idle", retries |-> 0, delay |-> 0, from |-> 0,
             switches |-> 0, delays |-> 0]

----------------------------------------------------------------------------
(* Frames *)

uiVars     == <<deleteConfirmModal, confirmDelete, categoryModal,
                itemToUpdateAfterCategory>>
aiVars     == <<isAiEnabled, isAiLoading, aiRequest>>
undoVars   == <<lastCompletedItem, showCompletedUndoToast, lastDeletedItem,
                showUndoToast>>
remoteVars == <<rows, net, doneAt, failing>>
sideVars   == <<editingItem, isEditModalOpen, toast, online>>
famVars    == <<tgUser, familyMembers, isOwner, family>>
gwVars     == <<currentModelIndex, calls>>
viewVars   == <<selectedCategoryFilter, isRecording, voiceRequest>>
extVars    == <<famVars, gwVars, viewVars>>

\* the requests of a handler reach the datastore; their echoes are queued
\* While the datastore does not serve, the requests stay in flight until their
\* promises resolve false.
Push(out) ==
  IF online
  THEN LET r == applyRequests([rows |-> rows, net |-> net, doneAt |-> doneAt], out, TRUE)
       IN  /\ Len(r.net) <= MaxNet
           /\ rows' = r.rows
           /\ net' = r.net
           /\ doneAt' = r.doneAt
           /\ UNCHANGED failing
  ELSE /\ Len(failing) + Len(out) <= MaxNet
       /\ failing' = failing \o out
       /\ UNCHANGED <<rows, net, doneAt>>

\* handlers serve the user once the mount effects have run
Mounted == phase # "mounted"

----------------------------------------------------------------------------
(* Session start: the mount effects and authAndSync (App.tsx:273-326, 397-405) *)

\* the updater of the daily rollover effect
rollover(prev, t) ==
  [k \in 1..Len(prev) |->
     IF /\ prev[k].completed
        /\ prev[k].completedAt # Undefined
        /\ startOfDay(prev[k].completedAt) < startOfDay(t)
     THEN [prev[k] EXCEPT !.completed = FALSE, !.onList = FALSE, !.completedAt = Undefined]
     ELSE prev[k]]

DailyRollover ==
  /\ phase = "mounted"
  /\ todayStr' = startOfDay(now)
  /\ items' = rollover(items, now)
  /\ phase' = "auth"
  /\ lastOp' = NoOp
  /\ UNCHANGED <<categories, sets, logs, familyId, undoVars, uiVars, aiVars,
                 remoteVars, now, nextId, sideVars, extVars>>

\* authUser resolves and the family is set (App.tsx:280-303)
AuthUser ==
  /\ phase = "auth"
  /\ tgUser # NullUser
  /\ familyId' = MyFamily
  /\ familyMembers' = SelectSeq(family.members, LAMBDA m : m # tgUser)
  /\ isOwner' = (family.owner_id = tgUser)
  /\ phase' = "fetch"
  /\ lastOp' = NoOp
  /\ UNCHANGED <<items, categories, sets, logs, undoVars, uiVars, aiVars,
                 remoteVars, now, todayStr, sideVars, nextId, tgUser, family, gwVars,
                 viewVars>>

\* authUser returns null or throws: the catch block, no family (App.tsx:281, 317)
AuthFailed ==
  /\ phase = "auth"
  /\ tgUser # NullUser
  /\ phase' = "failed"
  /\ toast' = showToast(TRUE)
  /\ lastOp' = NoOp
  /\ UNCHANGED <<items, categories, sets, logs, familyId, undoVars, uiVars,
                 aiVars, remoteVars, now, todayStr, editingItem, isEditModalOpen,
                 online, nextId, extVars>>

\* remoteItems.map(...) (App.tsx:307-314)
mappedItem(ri) ==
  ProductItem(ri.id, ri.text, categoryOrNone(ri.category), ri.is_bought, TRUE,
              ri.purchase_count, Undefined)

\* the sequences that list each element of S once: a select without ORDER BY
RECURSIVE Listings(_)
Listings(S) ==
  IF S = {} THEN {<<>>}
  ELSE UNION {{<<x>> \o l : l \in Listings(S \ {x})} : x \in S}

\* getItems resolves and setItems(mappedItems) replaces the store (App.tsx:306-315)
GetItems ==
  /\ phase = "fetch"
  /\ \E l \in Listings({r \in rows : r.family_id = MyFamily}) :
       items' = [k \in 1..Len(l) |-> mappedItem(l[k])]
  /\ phase' = "ready"
  /\ lastOp' = Op("getItems", 0, 0, 0)
  /\ UNCHANGED <<categories, sets, logs, familyId, undoVars, uiVars, aiVars,
                 remoteVars, now, todayStr, sideVars, nextId, extVars>>

----------------------------------------------------------------------------
(* Delivery of realtime events (App.tsx:329-371) *)

Deliver(type) ==
  /\ familyId # Undefined
  /\ net # <<>>
  /\ Head(net).type = type
  /\ items' = mergeEvent(items, Head(net))
  /\ net' = Tail(net)
  /\ lastOp' = Op(type, Head(net).row.id, 0, Head(net).own)
  /\ UNCHANGED <<categories, sets, logs, familyId, phase, undoVars, uiVars,
                 aiVars, rows, doneAt, failing, now, todayStr, sideVars, nextId, extVars>>

OnInsert == Deliver("INSERT")
OnUpdate == Deliver("UPDATE")
OnDelete == Deliver("DELETE")

----------------------------------------------------------------------------
(* Another family member's client writes to the datastore *)

RemoteCats == {NullCat, ForeignCat}

OtherInsert(n, c) ==
  /\ Mounted
  /\ RemoteId \notin RowIds(rows)
  /\ LET r == applyRequests([rows |-> rows, net |-> net, doneAt |-> doneAt],
                         <<upsertItem(DbItem(RemoteId, n, FALSE, c, MyFamily, 0))>>, FALSE)
     IN  /\ Len(r.net) <= MaxNet
         /\ rows' = r.rows /\ net' = r.net /\ doneAt' = r.doneAt
  /\ lastOp' = NoOp
  /\ UNCHANGED <<items, categories, sets, logs, familyId, phase, undoVars,
                 uiVars, aiVars, failing, now, todayStr, sideVars, nextId, extVars>>

\* the other client checks the row off or on again (its toggleComplete)
OtherToggle ==
  /\ Mounted
  /\ \E x \in rows :
       /\ x.is_bought \/ x.purchase_count < MaxCount
       /\ LET y == [x EXCEPT !.is_bought = ~x.is_bought,
                             !.purchase_count = IF x.is_bought THEN @ ELSE @ + 1]
              r == applyRequests([rows |-> rows, net |-> net, doneAt |-> doneAt],
                                 <<upsertItem(y)>>, FALSE)
          IN  /\ Len(r.net) <= MaxNet
              /\ rows' = r.rows /\ net' = r.net /\ doneAt' = r.doneAt
              /\ lastOp' = NoOp
  /\ UNCHANGED <<items, categories, sets, logs, familyId, phase, undoVars,
                 uiVars, aiVars, failing, now, todayStr, sideVars, nextId, extVars>>

OtherDelete ==
  /\ Mounted
  /\ \E x \in rows :
       LET r == applyRequests([rows |-> rows, net |-> net, doneAt |-> doneAt],
                              <<deleteItemApi(x)>>, FALSE)
       IN  /\ Len(r.net) <= MaxNet
           /\ rows' = r.rows /\ net' = r.net /\ doneAt' = r.doneAt
           /\ lastOp' = NoOp
  /\ UNCHANGED <<items, categories, sets, logs, familyId, phase, undoVars,
                 uiVars, aiVars, failing, now, todayStr, sideVars, nextId, extVars>>

----------------------------------------------------------------------------
(* The Purchase Log updaters of toggleComplete and undoCompletion *)

\* currentLogs.find(l => new Date(l.date).setHours(0,0,0,0) === today)
FindLog(currentLogs, t) ==
  LET S == {k \in 1..Len(currentLogs) : startOfDay(currentLogs[k].date) = startOfDay(t)}
  IN  IF S = {} THEN 0 ELSE MinOf(S)

\* logEntry.items.map(i => i.name).lastIndexOf(name): 0 if none
lastIndexOf(entries, name) ==
  LET S == {k \in 1..Len(entries) : entries[k].name = name}
  IN  IF S = {} THEN 0 ELSE MaxOf(S)

\* currentLogs.map(l => l.id === id ? { ...l, items: newItems } : l)
withItems(currentLogs, id, newItems) ==
  [k \in 1..Len(currentLogs) |->
     IF currentLogs[k].id = id THEN [currentLogs[k] EXCEPT !.items = newItems]
     ELSE currentLogs[k]]

\* the tuple put in front of those of today's entry
logCompletionFront(currentLogs, item, t) ==
  LET k == FindLog(currentLogs, t)
      itemForLog == [name |-> item.name, categoryId |-> item.categoryId]
  IN  IF k # 0
      THEN [j \in 1..Len(currentLogs) |->
              IF currentLogs[j].id = currentLogs[k].id
              THEN [currentLogs[j] EXCEPT !.items = <<itemForLog>> \o @]
              ELSE currentLogs[j]]
      ELSE <<[id |-> t, date |-> t, items |-> <<itemForLog>>]>> \o currentLogs

\* the newCompleted branch making an entry for every completion
logCompletionNewEntry(currentLogs, item, t) ==
  <<[id |-> t, date |-> t,
     items |-> <<[name |-> item.name, categoryId |-> item.categoryId]>>]>> \o currentLogs

\* the newCompleted branch (App.tsx:622-629)
logCompletion(currentLogs, item, t) ==
  LET k == FindLog(currentLogs, t)
      itemForLog == [name |-> item.name, categoryId |-> item.categoryId]
  IN  IF k # 0
      THEN [j \in 1..Len(currentLogs) |->
              IF currentLogs[j].id = currentLogs[k].id
              THEN [currentLogs[j] EXCEPT !.items = Append(@, itemForLog)]
              ELSE currentLogs[j]]
      ELSE <<[id |-> t, date |-> t, items |-> <<itemForLog>>]>> \o currentLogs

\* removal of the first tuple of that name from today's entry
logRemovalFirst(currentLogs, name, t) ==
  LET k == FindLog(currentLogs, t)
  IN  IF k = 0 THEN currentLogs
      ELSE LET S == {j \in 1..Len(currentLogs[k].items) : currentLogs[k].items[j].name = name}
           IN  IF S = {} THEN currentLogs
               ELSE withItems(currentLogs, currentLogs[k].id,
                              RemoveAt(currentLogs[k].items, MinOf(S)))

\* removal of the last tuple of that name from today's entry
\* (App.tsx:631-640 and 663-672)
logRemoval(currentLogs, name, t) ==
  LET k == FindLog(currentLogs, t)
  IN  IF k = 0 THEN currentLogs
      ELSE LET lastIndex == lastIndexOf(currentLogs[k].items, name)
           IN  IF lastIndex = 0 THEN currentLogs
               ELSE withItems(currentLogs, currentLogs[k].id,
                              RemoveAt(currentLogs[k].items, lastIndex))

\* the tuples of the entry of day t, <<>> when there is none
TodayItems(ls, t) == IF FindLog(ls, t) = 0 THEN <<>> ELSE ls[FindLog(ls, t)].items

----------------------------------------------------------------------------
(* toggleComplete and undoCompletion (App.tsx:600-679) *)

\* toggleComplete with the uncheck taking the purchase back
toggledItemDecrementing(item, t) ==
  IF ~item.completed
  THEN [item EXCEPT !.completed = TRUE, !.purchaseCount = @ + 1, !.completedAt = t]
  ELSE [item EXCEPT !.completed = FALSE, !.completedAt = Undefined,
                    !.purchaseCount = IF @ - 1 > 0 THEN @ - 1 ELSE 0]

\* toggleComplete with the uncheck leaving completedAt
toggledItemKeepingStamp(item, t) ==
  IF ~item.completed
  THEN [item EXCEPT !.completed = TRUE, !.purchaseCount = @ + 1, !.completedAt = t]
  ELSE [item EXCEPT !.completed = FALSE]

\* what toggleComplete returns for the item whose id matches
toggledItem(item, t) ==
  IF ~item.completed
  THEN [item EXCEPT !.completed = TRUE, !.purchaseCount = @ + 1, !.completedAt = t]
  ELSE [item EXCEPT !.completed = FALSE, !.completedAt = Undefined]

\* the updater of toggleComplete from position k on; acc is [items, out, logs, armed]
RECURSIVE toggleFrom(_, _, _, _, _, _)
toggleFrom(prev, id, fam, t, k, acc) ==
  IF k > Len(prev) THEN acc
  ELSE IF prev[k].id # id
       THEN toggleFrom(prev, id, fam, t, k + 1,
                       [acc EXCEPT !.items = Append(@, prev[k])])
       ELSE LET item == prev[k]
                newCompleted == ~item.completed
                newPurchaseCount == IF newCompleted THEN item.purchaseCount + 1
                                    ELSE item.purchaseCount
                req == upsertItem(DbItem(item.id, item.name, newCompleted,
                                         item.categoryId, fam, newPurchaseCount))
            IN  toggleFrom(prev, id, fam, t, k + 1,
                  [items |-> Append(acc.items, toggledItem(item, t)),
                   out   |-> IF fam # Undefined THEN Append(acc.out, req) ELSE acc.out,
                   logs  |-> IF newCompleted THEN logCompletion(acc.logs, item, t)
                             ELSE logRemoval(acc.logs, item.name, t),
                   armed |-> acc.armed \/ newCompleted])

toggleComplete(prev, id, fam, t, currentLogs) ==
  toggleFrom(prev, id, fam, t, 1,
             [items |-> <<>>, out |-> <<>>, logs |-> currentLogs, armed |-> FALSE])

\* the rows of the buy view: the active items and those bought today (App.tsx:970-973)
Shown(item) ==
  /\ item.onList
  /\ \/ ~item.completed
     \/ item.completedAt # Undefined /\ startOfDay(item.completedAt) = startOfDay(now)

ToggleComplete ==
  /\ Mounted
  /\ \E k \in 1..Len(items) :
       /\ Shown(items[k])
       /\ items[k].completed \/ items[k].purchaseCount < MaxCount
       /\ Len(TodayItems(logs, now)) < MaxLog
       /\ LET r == toggleComplete(items, items[k].id, familyId, now, logs)
          IN  /\ items' = r.items
              /\ logs' = r.logs
              /\ Push(r.out)
              /\ lastCompletedItem' = IF r.armed THEN items[k].id ELSE lastCompletedItem
              /\ showCompletedUndoToast' = (r.armed \/ showCompletedUndoToast)
              /\ lastOp' = Op("toggleComplete", items[k].id,
                              [count |-> items[k].purchaseCount,
                               log |-> TodayItems(logs, now),
                               recheck |-> /\ lastOp.op = "toggleComplete"
                                           /\ lastOp.id = items[k].id
                                           /\ lastOp.arg,
                               before |-> IF /\ lastOp.op = "toggleComplete"
                                             /\ lastOp.id = items[k].id
                                             /\ ~lastOp.arg
                                          THEN [count |-> lastOp.pre.count,
                                                log |-> lastOp.pre.log,
                                                checked |-> TRUE]
                                          ELSE [count |-> items[k].purchaseCount,
                                                log |-> TodayItems(logs, now),
                                                checked |-> FALSE]],
                              items[k].completed)
  /\ UNCHANGED <<categories, sets, familyId, phase, lastDeletedItem, showUndoToast,
                 uiVars, aiVars, now, todayStr, sideVars, nextId, extVars>>

\* the undo that leaves the purchaseCount
undoneItemsKeepingCount(prev, id) ==
  [k \in 1..Len(prev) |->
     IF prev[k].id = id
     THEN [prev[k] EXCEPT !.completed = FALSE, !.completedAt = Undefined]
     ELSE prev[k]]

\* the setItems updater of undoCompletion (App.tsx:675)
undoneItems(prev, id) ==
  [k \in 1..Len(prev) |->
     IF prev[k].id = id
     THEN [prev[k] EXCEPT !.completed = FALSE, !.completedAt = Undefined,
                          !.purchaseCount = IF @ - 1 > 0 THEN @ - 1 ELSE 0]
     ELSE prev[k]]

\* the setLogs updater of undoCompletion (App.tsx:660-674)
undoneLogs(its, id, currentLogs, t) ==
  IF FindById(its, id) = 0 THEN currentLogs
  ELSE logRemoval(currentLogs, its[FindById(its, id)].name, t)

\* the undo button of the toast runs undoCompletion when no delete toast is
\* shown (App.tsx:1232)
UndoCompletion ==
  /\ Mounted
  /\ showCompletedUndoToast /\ ~showUndoToast
  /\ IF lastCompletedItem # Undefined
     THEN /\ logs' = undoneLogs(items, lastCompletedItem, logs, now)
          /\ items' = undoneItems(items, lastCompletedItem)
          /\ lastCompletedItem' = Undefined
          /\ showCompletedUndoToast' = FALSE
     ELSE UNCHANGED <<logs, items, lastCompletedItem, showCompletedUndoToast>>
  /\ lastOp' = Op("undoCompletion", lastCompletedItem,
                  IF lastOp.op = "toggleComplete" /\ lastOp.id = lastCompletedItem
                  THEN lastOp.pre.before
                  ELSE [count |-> 0, log |-> <<>>, checked |-> FALSE],
                  lastOp.op = "toggleComplete" /\ ~lastOp.arg)
  /\ UNCHANGED <<categories, sets, familyId, phase, lastDeletedItem, showUndoToast,
                 uiVars, aiVars, remoteVars, now, todayStr, sideVars, nextId, extVars>>

\* completedUndoTimerRef fires after 5 s (App.tsx:648)
CompletedUndoTimer ==
  /\ showCompletedUndoToast
  /\ showCompletedUndoToast' = FALSE
  /\ lastOp' = NoOp
  /\ UNCHANGED <<items, categories, sets, logs, familyId, phase, lastCompletedItem,
                 lastDeletedItem, showUndoToast, uiVars, aiVars, remoteVars, now, todayStr, sideVars,
                 nextId, extVars>>

----------------------------------------------------------------------------
(* Adding items (App.tsx:544-598, 681-694) *)

\* a handler that called finalizeAddItem commits what the calls built up
CommitWithin(st, cap) ==
  /\ st.nid <= cap + 1
  /\ items' = st.items
  /\ nextId' = st.nid
  /\ Push(st.out)

Commit(st) == CommitWithin(st, MaxIds)

\* the same for the continuation of a handler that was suspended at an await
CommitResumed(st) == CommitWithin(st, MaxIds + MaxAiIds)

\* handleAddItemFromModal up to its await: [st, ai], ai = TRUE when the call
\* goes on to categorizeProduct
addFromModal(text, forcedCategoryId, onList) ==
  LET name == trim(text)
      targetId == forcedCategoryId
      k == FindByName(items, toLowerCase(name))
  IN  IF k # 0
      THEN [st |-> finalizeAddItem(items, familyId, Start, name,
                     IF targetId # DEPT_NONE THEN targetId ELSE items[k].categoryId, onList),
            ai |-> FALSE]
      ELSE IF ~isAiEnabled \/ targetId # DEPT_NONE
           THEN [st |-> finalizeAddItem(items, familyId, Start, name, targetId, onList),
                 ai |-> FALSE]
           ELSE [st |-> Start, ai |-> TRUE]

\* the category buttons of the add modal: none, or one of the registry
CategoryIds == {categories[k].id : k \in 1..Len(categories)}

\* the add that completes without the AI service (App.tsx:544-562)
HandleAddItemFromModal(text, c, onList) ==
  /\ Mounted
  /\ ~isAiLoading
  /\ c \in CategoryIds \cup {DEPT_NONE}
  /\ trim(text) # <<>>
  /\ LET r == addFromModal(text, c, onList)
     IN  /\ ~r.ai
         /\ Commit(r.st)
         /\ lastOp' = Op("add", 0, Len(items), onList)
  /\ UNCHANGED <<categories, sets, logs, familyId, phase, undoVars, uiVars,
                 aiVars, now, todayStr, sideVars, extVars>>

\* lines.forEach(name => finalizeAddItem(name, bulkAddCategory, shouldAddToList))
RECURSIVE addLines(_, _, _, _, _, _)
addLines(snap, fam, st, lines, categoryId, onList) ==
  IF lines = <<>> THEN st
  ELSE addLines(snap, fam, finalizeAddItem(snap, fam, st, Head(lines), categoryId, onList),
                Tail(lines), categoryId, onList)

\* bulkAddText.split('\n').map(l => l.trim()).filter(l => l)
splitLines(ls) ==
  LET t == [k \in 1..Len(ls) |-> trim(ls[k])]
  IN  FilterIdx(t, {k \in 1..Len(t) : t[k] # <<>>}, 1)

BulkTexts == {<<n>> : n \in InputNames} \cup {<<<<"a", "p">>, <<"b">>>>}

HandleBulkAdd(text, c, shouldAddToList) ==
  /\ Mounted
  /\ c \in CategoryIds
  /\ LET lines == splitLines(text)
     IN  /\ lines # <<>>
         /\ Commit(addLines(items, familyId, Start, lines, c, shouldAddToList))
         /\ lastOp' = Op("bulkAdd", 0, Len(items), shouldAddToList)
  /\ toast' = showToast(FALSE)
  /\ UNCHANGED <<categories, sets, logs, familyId, phase, undoVars, uiVars,
                 aiVars, now, todayStr, editingItem, isEditModalOpen, online, extVars>>

\* the setItems updater of the first branch of toggleHistoryItem (App.tsx:684)
takenOffList(prev, id) ==
  [k \in 1..Len(prev) |->
     IF prev[k].id = id THEN [prev[k] EXCEPT !.onList = FALSE, !.completed = FALSE]
     ELSE prev[k]]

ToggleHistoryItem ==
  /\ Mounted
  /\ \E k \in 1..Len(items) :
       LET item == items[k]
       IN  /\ IF item.onList /\ ~item.completed
              THEN /\ items' = takenOffList(items, item.id)
                   /\ Push(IF familyId # Undefined
                           THEN <<deleteItemApi(DbItem(item.id, item.name, item.completed,
                                    item.categoryId, familyId, item.purchaseCount))>>
                           ELSE <<>>)
                   /\ UNCHANGED nextId
              ELSE Commit(finalizeAddItem(items, familyId, Start, item.name,
                                          item.categoryId, TRUE))
           /\ lastOp' = Op(IF item.onList /\ ~item.completed THEN "offList" ELSE "reAdd",
                           item.id, Len(items), TRUE)
  /\ UNCHANGED <<categories, sets, logs, familyId, phase, undoVars, uiVars,
                 aiVars, now, todayStr, sideVars, extVars>>

----------------------------------------------------------------------------
(* Deleting an item and undoing it (App.tsx:761-775, 1232) *)

PerformItemDelete ==
  /\ Mounted
  /\ \E k \in 1..Len(items) :
       LET item == items[k]
       IN  /\ lastDeletedItem' = item
           /\ items' = onDelete(items, item.id)
           /\ Push(IF familyId # Undefined
                   THEN <<deleteItemApi(DbItem(item.id, item.name, item.completed,
                            item.categoryId, familyId, item.purchaseCount))>>
                   ELSE <<>>)
           /\ showUndoToast' = TRUE
           /\ lastOp' = Op("deleteItem", item.id, 0, 0)
  /\ UNCHANGED <<categories, sets, logs, familyId, phase, lastCompletedItem,
                 showCompletedUndoToast, uiVars, aiVars, now, todayStr, sideVars, nextId, extVars>>

\* the undo button of the toast while the delete toast is shown
UndoDelete ==
  /\ Mounted
  /\ showUndoToast
  /\ items' = IF lastDeletedItem # NoItem THEN <<lastDeletedItem>> \o items ELSE items
  /\ showUndoToast' = FALSE
  /\ lastOp' = Op("undoDelete", 0, 0, 0)
  /\ UNCHANGED <<categories, sets, logs, familyId, phase, lastCompletedItem,
                 showCompletedUndoToast, lastDeletedItem, uiVars, aiVars,
                 remoteVars, now, todayStr, sideVars, nextId, extVars>>

\* undoTimerRef fires after 5 s (App.tsx:773)
UndoTimer ==
  /\ showUndoToast
  /\ showUndoToast' = FALSE
  /\ lastOp' = NoOp
  /\ UNCHANGED <<items, categories, sets, logs, familyId, phase, lastCompletedItem,
                 showCompletedUndoToast, lastDeletedItem, uiVars, aiVars,
                 remoteVars, now, todayStr, sideVars, nextId, extVars>>

----------------------------------------------------------------------------
(* The Category Registry (App.tsx:786-849) *)

\* what the user types as a category name and picks as its emoji
CatNames  == {<<"d">>, <<"V">>, <<" ">>}
CatEmojis == {"box", "ear"}

\* ids of the registry
FindCatById(cats, id) ==
  LET S == {k \in 1..Len(cats) : cats[k].id = id}
  IN  IF S = {} THEN 0 ELSE MinOf(S)

\* cats.find(c => c.name.toLowerCase() === lname): its position, 0 if none
FindCatByName(cats, lname) ==
  LET S == {k \in 1..Len(cats) : toLowerCase(cats[k].name) = lname}
  IN  IF S = {} THEN 0 ELSE MinOf(S)

\* prev.find(c => c.id === 'dept_none') || { id: 'dept_none', ... }
noneOf(cats) ==
  IF FindCatById(cats, DEPT_NONE) = 0 THEN systemNone
  ELSE cats[FindCatById(cats, DEPT_NONE)]

\* the list as it is, the sentinel left where it stands
keepCatOrder(cats) == cats

\* reorderCats (App.tsx:516-520)
reorderCats(cats) ==
  FilterIdx(cats, {k \in 1..Len(cats) : cats[k].id # DEPT_NONE}, 1) \o <<noneOf(cats)>>

\* saveCategory with the category put behind the sentinel
saveCategoryLast(prev, editing, newCatId, catName, catEmoji) ==
  LET others == FilterIdx(prev, {k \in 1..Len(prev) :
                                   prev[k].id # DEPT_NONE /\ prev[k].id # editing}, 1)
      newCat == [id |-> IF editing # NullCat THEN editing ELSE newCatId,
                 name |-> catName, emoji |-> catEmoji]
  IN  others \o <<noneOf(prev)>> \o <<newCat>>

\* the setCategories updater of saveCategory (App.tsx:804-818);
\* editing is the id of editingCategory, NullCat when a category is created
saveCategory(prev, editing, newCatId, catName, catEmoji) ==
  LET others == FilterIdx(prev, {k \in 1..Len(prev) :
                                   prev[k].id # DEPT_NONE /\ prev[k].id # editing}, 1)
      newCat == [id |-> IF editing # NullCat THEN editing ELSE newCatId,
                 name |-> catName, emoji |-> catEmoji]
  IN  others \o <<newCat>> \o <<noneOf(prev)>>

\* performDeleteCategory without the reassignment of the items
notReassigned(prev, id) == prev

\* the two updaters of performDeleteCategory (App.tsx:844-845)
reassigned(prev, id) ==
  [k \in 1..Len(prev) |->
     IF prev[k].categoryId = id THEN [prev[k] EXCEPT !.categoryId = DEPT_NONE]
     ELSE prev[k]]

withoutCategory(prev, id) == FilterIdx(prev, {k \in 1..Len(prev) : prev[k].id # id}, 1)

\* how many items of its are in the category
CountIn(its, id) == Cardinality({k \in 1..Len(its) : its[k].categoryId = id})

ClosedModal == [open |-> FALSE, editing |-> NullCat]

\* openCategoryModal(cat?) from the settings list (App.tsx:786-798)
OpenCategoryModal ==
  /\ Mounted
  /\ ~categoryModal.open
  /\ \E c \in CategoryIds \cup {NullCat} :
       /\ c # DEPT_NONE
       /\ categoryModal' = [open |-> TRUE, editing |-> c]
       /\ lastOp' = NoOp
  /\ UNCHANGED <<items, categories, sets, logs, familyId, phase, undoVars,
                 deleteConfirmModal, confirmDelete, itemToUpdateAfterCategory,
                 aiVars, remoteVars, now, todayStr, sideVars, nextId, extVars>>

\* the "+ category" button of the add modal (App.tsx:1511-1515)
AddWithNewCategory(text, onList) ==
  /\ Mounted
  /\ ~categoryModal.open
  /\ itemToUpdateAfterCategory' =
       [set |-> TRUE, id |-> Undefined, name |-> text, onList |-> onList]
  /\ categoryModal' = [open |-> TRUE, editing |-> NullCat]
  /\ lastOp' = NoOp
  /\ UNCHANGED <<items, categories, sets, logs, familyId, phase, undoVars,
                 deleteConfirmModal, confirmDelete, aiVars, remoteVars, now, todayStr, sideVars, nextId, extVars>>

\* the cancel button of the category modal (App.tsx:2219)
CancelCategoryModal ==
  /\ categoryModal.open
  /\ categoryModal' = [categoryModal EXCEPT !.open = FALSE]
  /\ itemToUpdateAfterCategory' = NoPending
  /\ lastOp' = NoOp
  /\ UNCHANGED <<items, categories, sets, logs, familyId, phase, undoVars,
                 deleteConfirmModal, confirmDelete, aiVars, remoteVars, now, todayStr, sideVars, nextId, extVars>>

\* the setItems updater of saveCategory for an edited item (App.tsx:822)
renamedInto(prev, id, name, newCatId) ==
  [k \in 1..Len(prev) |->
     IF prev[k].id = id THEN [prev[k] EXCEPT !.name = name, !.categoryId = newCatId]
     ELSE prev[k]]

SaveCategory(catName, catEmoji) ==
  /\ Mounted
  /\ categoryModal.open
  /\ Len(categories) < MaxCats \/ categoryModal.editing # NullCat
  /\ LET newCatId == nextId
           editing == categoryModal.editing
           pending == itemToUpdateAfterCategory
           st0 == [Start EXCEPT !.nid = IF editing = NullCat THEN nextId + 1 ELSE nextId]
       IN  /\ trim(catName) # <<>>
           /\ categories' = saveCategory(categories, editing, newCatId, catName, catEmoji)
           /\ IF editing = NullCat /\ pending.set
              THEN /\ IF pending.id # Undefined
                      THEN Commit([st0 EXCEPT !.items =
                                     renamedInto(items, pending.id, pending.name, newCatId)])
                      ELSE Commit(finalizeAddItem(items, familyId, st0, pending.name,
                                                  newCatId, pending.onList))
                   /\ itemToUpdateAfterCategory' = NoPending
                   /\ toast' = showToast(FALSE)
              ELSE /\ Commit(st0)
                   /\ UNCHANGED <<itemToUpdateAfterCategory, toast>>
           /\ lastOp' = Op("saveCategory", IF editing # NullCat THEN editing ELSE newCatId,
                           Len(items), editing = NullCat /\ pending.set)
  /\ categoryModal' = [categoryModal EXCEPT !.open = FALSE]
  /\ UNCHANGED <<sets, logs, familyId, phase, undoVars, deleteConfirmModal,
                 confirmDelete, aiVars, now, todayStr, editingItem, isEditModalOpen,
                 online, extVars>>

\* deleteCategory(id): the guard, then the modal or the deletion (App.tsx:833-849)
DeleteCategory ==
  /\ Mounted
  /\ deleteConfirmModal = NullCat
  /\ \E id \in CategoryIds :
       /\ IF id = DEPT_NONE
          THEN UNCHANGED <<items, categories, deleteConfirmModal, categoryModal>>
          ELSE IF confirmDelete
               THEN /\ deleteConfirmModal' = id
                    /\ UNCHANGED <<items, categories, categoryModal>>
               ELSE /\ items' = reassigned(items, id)
                    /\ categories' = withoutCategory(categories, id)
                    /\ categoryModal' = [categoryModal EXCEPT !.open = FALSE]
                    /\ deleteConfirmModal' = NullCat
       /\ lastOp' = Op("deleteCategory", id, CountIn(items, id),
                       id # DEPT_NONE /\ ~confirmDelete)
  /\ UNCHANGED <<sets, logs, familyId, phase, undoVars, confirmDelete,
                 itemToUpdateAfterCategory, aiVars, remoteVars, now, todayStr, sideVars, nextId, extVars>>

\* the confirm button of the modal; dontAsk is its checkbox (App.tsx:2239)
PerformDeleteCategory ==
  /\ deleteConfirmModal # NullCat
  /\ \E tempDontAskAgain \in BOOLEAN :
       confirmDelete' = IF tempDontAskAgain THEN FALSE ELSE confirmDelete
  /\ items' = reassigned(items, deleteConfirmModal)
  /\ categories' = withoutCategory(categories, deleteConfirmModal)
  /\ categoryModal' = [categoryModal EXCEPT !.open = FALSE]
  /\ deleteConfirmModal' = NullCat
  /\ lastOp' = Op("deleteCategory", deleteConfirmModal,
                  CountIn(items, deleteConfirmModal), TRUE)
  /\ UNCHANGED <<sets, logs, familyId, phase, undoVars, itemToUpdateAfterCategory,
                 aiVars, remoteVars, now, todayStr, sideVars, nextId, extVars>>

\* the cancel button of the confirmation modal (App.tsx:2238)
CancelDeleteCategory ==
  /\ deleteConfirmModal # NullCat
  /\ deleteConfirmModal' = NullCat
  /\ lastOp' = NoOp
  /\ UNCHANGED <<items, categories, sets, logs, familyId, phase, undoVars,
                 confirmDelete, categoryModal, itemToUpdateAfterCategory, aiVars,
                 remoteVars, now, todayStr, sideVars, nextId, extVars>>

----------------------------------------------------------------------------
(* Set expansion and the acceptance of dictated items (App.tsx:513-542, 1643-1668) *)

\* setItem.emoji || default
emojiOr(e) == IF e = "" THEN "box" ELSE e

\* the forEach taking the category of the tuple whether or not an item of
\* the name is there
RECURSIVE addTuplesByTuple(_, _, _, _)
addTuplesByTuple(snap, fam, acc, tuples) ==
  IF tuples = <<>> THEN acc
  ELSE LET setItem == Head(tuples)
           c == FindCatByName(acc.cats, toLowerCase(setItem.categoryName))
           cat == [id |-> acc.st.nid, name |-> setItem.categoryName,
                   emoji |-> emojiOr(setItem.emoji)]
       IN  IF c # 0
           THEN addTuplesByTuple(snap, fam,
                  [st |-> finalizeAddItem(snap, fam, acc.st, setItem.name,
                                          acc.cats[c].id, TRUE),
                   cats |-> acc.cats], Tail(tuples))
           ELSE addTuplesByTuple(snap, fam,
                  [st |-> finalizeAddItem(snap, fam, [acc.st EXCEPT !.nid = @ + 1],
                                          setItem.name, cat.id, TRUE),
                   cats |-> Append(acc.cats, cat)], Tail(tuples))

\* the forEach of addSpecificItemsFromSet and of the accept button: acc is
\* [st, cats]; snap and fam are the items and the familyId closed over
RECURSIVE addTuples(_, _, _, _)
addTuples(snap, fam, acc, tuples) ==
  IF tuples = <<>> THEN acc
  ELSE LET setItem == Head(tuples)
           h == FindByName(snap, toLowerCase(setItem.name))
           c == FindCatByName(acc.cats, toLowerCase(setItem.categoryName))
           cat == [id |-> acc.st.nid, name |-> setItem.categoryName,
                   emoji |-> emojiOr(setItem.emoji)]
       IN  IF h # 0
           THEN addTuples(snap, fam,
                  [st |-> finalizeAddItem(snap, fam, acc.st, setItem.name,
                                          snap[h].categoryId, TRUE),
                   cats |-> acc.cats], Tail(tuples))
           ELSE IF c # 0
           THEN addTuples(snap, fam,
                  [st |-> finalizeAddItem(snap, fam, acc.st, setItem.name,
                                          acc.cats[c].id, TRUE),
                   cats |-> acc.cats], Tail(tuples))
           ELSE addTuples(snap, fam,
                  [st |-> finalizeAddItem(snap, fam, [acc.st EXCEPT !.nid = @ + 1],
                                          setItem.name, cat.id, TRUE),
                   cats |-> Append(acc.cats, cat)], Tail(tuples))

\* the updater without the test of the id
usedEvery(prev, id) ==
  [k \in 1..Len(prev) |-> [prev[k] EXCEPT !.usageCount = @ + 1]]

\* the setSets updater of addSpecificItemsFromSet (App.tsx:537)
usedOnce(prev, id) ==
  [k \in 1..Len(prev) |->
     IF prev[k].id = id THEN [prev[k] EXCEPT !.usageCount = @ + 1] ELSE prev[k]]

\* partialSetModal.set.items.filter((_, i) => selectedIndices.includes(i))
chosen(tuples, selectedIndices) == FilterIdx(tuples, selectedIndices, 1)

AddSpecificItemsFromSet(selectedIndices) ==
  /\ Mounted
  /\ selectedIndices # {}
  /\ \E k \in 1..Len(sets) :
       /\ selectedIndices \subseteq 1..Len(sets[k].items)
       /\ LET itemsToAdd == chosen(sets[k].items, selectedIndices)
             r == addTuples(items, familyId, [st |-> Start, cats |-> categories], itemsToAdd)
         IN  /\ Len(r.cats) <= MaxCats
             /\ sets[k].usageCount < MaxCount
             /\ Commit(r.st)
             /\ categories' = reorderCats(r.cats)
             /\ sets' = usedOnce(sets, sets[k].id)
             /\ lastOp' = Op("addFromSet", sets[k].id, itemsToAdd, TRUE)
  /\ toast' = showToast(FALSE)
  /\ UNCHANGED <<logs, familyId, phase, undoVars, uiVars, aiVars, now, todayStr,
                 editingItem, isEditModalOpen, online, extVars>>

\* what parseDictatedText returned and the user left selected
Tuple(name, categoryName, emoji) ==
  [name |-> name, categoryName |-> categoryName, emoji |-> emoji]

ParsedItems ==
  { <<Tuple(<<"b">>, <<"v">>, "")>>,
    <<Tuple(<<"a", "p">>, <<"D">>, "ear")>>,
    <<Tuple(<<"b">>, <<"V">>, "ear"), Tuple(<<"B">>, <<"v">>, "")>> }

\* the accept button of the parsed-items modal (App.tsx:1643-1668)
AcceptParsedItems(toAdd) ==
  /\ Mounted
  /\ ~isAiLoading
  /\ isAiEnabled
  /\ LET r == addTuples(items, familyId, [st |-> Start, cats |-> categories], toAdd)
     IN  /\ Len(r.cats) <= MaxCats
         /\ Commit(r.st)
         /\ categories' = reorderCats(r.cats)
         /\ lastOp' = Op("acceptParsed", 0, Len(items), TRUE)
  /\ toast' = showToast(FALSE)
  /\ UNCHANGED <<sets, logs, familyId, phase, undoVars, uiVars, aiVars, now, todayStr,
                 editingItem, isEditModalOpen, online, extVars>>

----------------------------------------------------------------------------
(* The add that awaits categorizeProduct (App.tsx:564-584) *)

NoRequest == [active |-> FALSE, name |-> <<>>, onList |-> FALSE, items |-> <<>>,
              categories |-> <<>>, familyId |-> Undefined]

\* the category names the service answers with
AiCatNames == {<<"d">>, <<"v">>}

\* handleAddItemFromModal reaches its await: the closure is kept
CategorizeProduct(text, onList) ==
  /\ Mounted
  /\ ~isAiLoading
  /\ trim(text) # <<>>
  /\ addFromModal(text, DEPT_NONE, onList).ai
  /\ aiRequest' = [active |-> TRUE, name |-> trim(text), onList |-> onList,
                   items |-> items, categories |-> categories,
                   familyId |-> familyId]
  /\ isAiLoading' = TRUE
  /\ lastOp' = NoOp
  /\ UNCHANGED <<items, categories, sets, logs, familyId, phase, undoVars, uiVars,
                 isAiEnabled, remoteVars, now, todayStr, sideVars, nextId, extVars>>

\* the handler's own view of the state after the await: the closed-over items
\* and familyId, the current store for the updaters
Resumed == [items |-> items, out |-> <<>>, nid |-> nextId]

\* categorizeProduct resolved with a category (App.tsx:567-580)
AiCategorized(categoryName, suggestedEmoji) ==
  /\ aiRequest.active
  /\ LET q == aiRequest
           c == FindCatByName(q.categories, toLowerCase(categoryName))
       IN  IF c = 0
           THEN /\ Len(categories) < MaxCats
                /\ categories' = saveCategory(categories, NullCat, nextId, categoryName,
                                              emojiOr(suggestedEmoji))
                /\ CommitResumed(finalizeAddItem(q.items, q.familyId,
                                                 [Resumed EXCEPT !.nid = @ + 1],
                                                 q.name, nextId, q.onList))
           ELSE /\ UNCHANGED categories
                /\ CommitResumed(finalizeAddItem(q.items, q.familyId, Resumed, q.name,
                                                 q.categories[c].id, q.onList))
  /\ isAiLoading' = FALSE
  /\ aiRequest' = NoRequest
  /\ lastOp' = Op("aiCategorized", 0, Len(items), aiRequest.onList)
  /\ UNCHANGED <<sets, logs, familyId, phase, undoVars, uiVars, isAiEnabled, now, todayStr, sideVars, extVars>>

\* categorizeProduct resolved with null or threw: the sentinel category
\* (App.tsx:580-583); handleAiError puts up an error toast when it threw
AiFailed ==
  /\ aiRequest.active
  /\ \E threw \in BOOLEAN : toast' = IF threw THEN showToast(TRUE) ELSE toast
  /\ CommitResumed(finalizeAddItem(aiRequest.items, aiRequest.familyId, Resumed,
                                   aiRequest.name, DEPT_NONE, aiRequest.onList))
  /\ isAiLoading' = FALSE
  /\ aiRequest' = NoRequest
  /\ lastOp' = Op("aiFailed", 0, Len(items), aiRequest.onList)
  /\ UNCHANGED <<categories, sets, logs, familyId, phase, undoVars, uiVars,
                 isAiEnabled, now, todayStr, editingItem, isEditModalOpen, online, extVars>>

----------------------------------------------------------------------------
(* The family: removeFamilyMemberHandler (App.tsx:905-919, 2675-2717) *)

\* the handler going on for any user that is signed in
mayRemoveAnyone(user, owner) == user # NullUser

\* the handler goes on past "if (!tgUser || !isOwner) return;" (App.tsx:906)
mayRemove(user, owner) == user # NullUser /\ owner

\* members.filter(m => m.telegram_id !== tgUser.id) (App.tsx:300, 910)
otherMembers(members, user) == SelectSeq(members, LAMBDA m : m # user)

\* removeFamilyMember of the datastore (App.tsx:2675-2717): refused unless
\* ownerId owns the family, else the target is moved out of it
removeFamilyMember(fam, ownerId, targetUserId) ==
  IF fam.owner_id # ownerId THEN [ok |-> FALSE, family |-> fam]
  ELSE [ok |-> TRUE,
        family |-> [fam EXCEPT !.members = SelectSeq(@, LAMBDA m : m # targetUserId)]]

\* removeFamilyMemberHandler; lastOp.arg tells whether removeFamilyMemberApi
\* was called. The request is served, comes back null, or throws.
RemoveFamilyMemberHandler(targetUserId) ==
  /\ Mounted
  /\ IF ~mayRemove(tgUser, isOwner)
     THEN /\ UNCHANGED <<family, familyMembers, toast>>
          /\ lastOp' = Op("removeFamilyMember", targetUserId, familyMembers, FALSE)
     ELSE /\ \E outcome \in {"served", "null", "threw"} :
               LET r == removeFamilyMember(family, tgUser, targetUserId)
               IN  IF outcome = "served" /\ r.ok
                   THEN /\ family' = r.family
                        /\ familyMembers' = otherMembers(r.family.members, tgUser)
                        /\ toast' = showToast(FALSE)
                   ELSE /\ UNCHANGED <<family, familyMembers>>
                        /\ toast' = showToast(TRUE)
          /\ lastOp' = Op("removeFamilyMember", targetUserId, familyMembers, TRUE)
  /\ UNCHANGED <<items, categories, sets, logs, familyId, phase, undoVars, uiVars,
                 aiVars, remoteVars, now, todayStr, editingItem, isEditModalOpen,
                 online, nextId, tgUser, isOwner, gwVars, viewVars>>

\* another member leaves the family from their own client (leaveFamily,
\* App.tsx:2633-2673); this client's list is not told
OtherLeaveFamily(member) ==
  /\ member # tgUser
  /\ \E k \in 1..Len(family.members) : family.members[k] = member
  /\ family' = [family EXCEPT !.members = SelectSeq(@, LAMBDA m : m # member)]
  /\ lastOp' = NoOp
  /\ UNCHANGED <<items, categories, sets, logs, familyId, phase, undoVars, uiVars,
                 aiVars, remoteVars, now, todayStr, sideVars, nextId, tgUser,
                 familyMembers, isOwner, gwVars, viewVars>>

\* leaveFamilyHandler when leaveFamily succeeded (App.tsx:886-896): a new
\* family owned by the user is created and the user is moved to it. The store
\* is left as it is. One leave in a session is modelled.
LeaveFamilyHandler ==
  /\ Mounted
  /\ tgUser # NullUser
  /\ familyId = MyFamily
  /\ family' = [family EXCEPT !.members = SelectSeq(@, LAMBDA m : m # tgUser)]
  /\ familyMembers' = <<>>
  /\ familyId' = NewFamily
  /\ isOwner' = TRUE
  /\ toast' = showToast(FALSE)
  /\ lastOp' = Op("leaveFamily", 0, familyId, 0)
  /\ UNCHANGED <<items, categories, sets, logs, phase, undoVars, uiVars,
                 aiVars, remoteVars, now, todayStr, editingItem, isEditModalOpen,
                 online, nextId, tgUser, gwVars, viewVars>>

----------------------------------------------------------------------------
(* callWithRetry (App.tsx:2842-2890) *)

\* what fn() can reject with: an error the model test matches, one the
\* retry test matches, one both match, one neither matches
Errors == {"model", "retryable", "both", "other"}

isModelError(error) == error \in {"model", "both"}
isRetryable(error)  == error \in {"retryable", "both"}

\* the catch block retrying whatever is left of retries
afterErrorRetryingOn(c, index, error) ==
  IF isModelError(error) /\ index < Len(MODELS) - 1
  THEN [call |-> [c EXCEPT !.switches = @ + 1], index |-> index + 1]
  ELSE IF isRetryable(error)
       THEN [call |-> [c EXCEPT !.status = "waiting"], index |-> index]
       ELSE [call |-> [c EXCEPT !.status = "failed"], index |-> index]

\* the catch block (App.tsx:2845-2889): the call and currentModelIndex after
\* it. After a switch of the model fn is awaited again at once.
afterError(c, index, error) ==
  IF isModelError(error) /\ index < Len(MODELS) - 1
  THEN [call |-> [c EXCEPT !.switches = @ + 1], index |-> index + 1]
  ELSE IF c.retries > 0 /\ isRetryable(error)
       THEN [call |-> [c EXCEPT !.status = "waiting"], index |-> index]
       ELSE [call |-> [c EXCEPT !.status = "failed"], index |-> index]

gatewayFrame ==
  UNCHANGED <<items, categories, sets, logs, familyId, phase, undoVars, uiVars,
              aiVars, remoteVars, now, todayStr, sideVars, nextId, famVars, viewVars>>

\* one of the four service functions calls callWithRetry(fn)
StartCall(c) ==
  /\ Mounted
  /\ calls[c].status = "idle"
  /\ calls' = [calls EXCEPT ![c] =
                 [status |-> "running", retries |-> DefaultRetries,
                  delay |-> DefaultDelay, from |-> currentModelIndex,
                  switches |-> 0, delays |-> 0]]
  /\ lastOp' = NoOp
  /\ UNCHANGED currentModelIndex
  /\ gatewayFrame

\* await fn() settles: it resolves, or rejects and the catch block runs
Settle(c, outcome) ==
  /\ calls[c].status = "running"
  /\ IF outcome = "ok"
     THEN /\ calls' = [calls EXCEPT ![c].status = "done"]
          /\ UNCHANGED currentModelIndex
     ELSE LET r == afterError(calls[c], currentModelIndex, outcome)
          IN  /\ calls' = [calls EXCEPT ![c] = r.call]
              /\ currentModelIndex' = r.index
  /\ lastOp' = Op("settle", c, currentModelIndex, outcome)
  /\ gatewayFrame

\* the setTimeout of the retry fires: callWithRetry(fn, retries - 1, delay * 1.5)
Wake(c) ==
  /\ calls[c].status = "waiting"
  /\ calls' = [calls EXCEPT ![c].status = "running", ![c].retries = @ - 1,
                            ![c].delay = (@ * 3) \div 2, ![c].delays = @ + 1]
  /\ lastOp' = NoOp
  /\ UNCHANGED currentModelIndex
  /\ gatewayFrame

\* the caller has the result or the error
Return(c) ==
  /\ calls[c].status \in {"done", "failed"}
  /\ calls' = [calls EXCEPT ![c] = IdleCall]
  /\ lastOp' = NoOp
  /\ UNCHANGED currentModelIndex
  /\ gatewayFrame

----------------------------------------------------------------------------
(* The category filter and its auto-redirect effect (App.tsx:407-421, 961-1000) *)

\* items.some(i => i.onList && !i.completed && i.categoryId === filter)
hasActiveItems(its, filter) ==
  \E k \in 1..Len(its) : its[k].onList /\ ~its[k].completed /\ its[k].categoryId = filter

\* activeCategoryIds: the categories the filter bar shows a button for
activeCategoryIds(its) ==
  {its[k].categoryId : k \in {j \in 1..Len(its) : its[j].onList /\ ~its[j].completed}}

\* a timeout that no cleanup clears
resetPendingUncleared == selectedCategoryFilter # All

\* the timeout of the effect is set. The effect runs after every change of
\* items or of the filter, its cleanup first: the timeout is set exactly when
\* the last run found the filter on a category without an active item.
resetPending ==
  selectedCategoryFilter # All /\ ~hasActiveItems(items, selectedCategoryFilter)

\* a button of the filter bar (App.tsx:1262-1264)
SetSelectedCategoryFilter(filter) ==
  /\ Mounted
  /\ filter = All \/ (filter \in activeCategoryIds(items) /\ filter \in CategoryIds)
  /\ filter # selectedCategoryFilter
  /\ selectedCategoryFilter' = filter
  /\ lastOp' = Op("setFilter", filter, selectedCategoryFilter, 0)
  /\ UNCHANGED <<items, categories, sets, logs, familyId, phase, undoVars, uiVars,
                 aiVars, remoteVars, now, todayStr, sideVars, nextId, famVars, gwVars,
                 isRecording, voiceRequest>>

\* the timeout fires: setSelectedCategoryFilter('All') (App.tsx:418)
FilterResetTimer ==
  /\ resetPending
  /\ selectedCategoryFilter' = All
  /\ lastOp' = Op("filterReset", selectedCategoryFilter, 0, 0)
  /\ UNCHANGED <<items, categories, sets, logs, familyId, phase, undoVars, uiVars,
                 aiVars, remoteVars, now, todayStr, sideVars, nextId, famVars, gwVars,
                 isRecording, voiceRequest>>

----------------------------------------------------------------------------
(* startVoiceDictation (App.tsx:696-759) *)

\* the microphone button: the recognition starts. One recognition at a time
\* is modelled.
StartVoiceDictation ==
  /\ Mounted
  /\ ~isAiLoading
  /\ isAiEnabled
  /\ ~isRecording
  /\ isRecording' = TRUE
  /\ lastOp' = NoOp
  /\ UNCHANGED <<items, categories, sets, logs, familyId, phase, undoVars, uiVars,
                 aiVars, remoteVars, now, todayStr, sideVars, nextId, famVars, gwVars,
                 selectedCategoryFilter, voiceRequest>>

\* rec.onresult with a final transcript: parseDictatedText is awaited
VoiceResult ==
  /\ isRecording
  /\ ~voiceRequest
  /\ isRecording' = FALSE
  /\ voiceRequest' = TRUE
  /\ isAiLoading' = TRUE
  /\ lastOp' = Op("voiceResult", 0, isAiLoading, aiRequest.active)
  /\ UNCHANGED <<items, categories, sets, logs, familyId, phase, undoVars, uiVars,
                 isAiEnabled, aiRequest, remoteVars, now, todayStr, sideVars, nextId,
                 famVars, gwVars, selectedCategoryFilter>>

\* rec.onerror or rec.onend without a result
VoiceEnded ==
  /\ isRecording
  /\ isRecording' = FALSE
  /\ lastOp' = NoOp
  /\ UNCHANGED <<items, categories, sets, logs, familyId, phase, undoVars, uiVars,
                 aiVars, remoteVars, now, todayStr, sideVars, nextId, famVars, gwVars,
                 selectedCategoryFilter, voiceRequest>>

\* parseDictatedText settles: items for the parsed-items modal, or none, or it
\* threw (App.tsx:729-743)
VoiceParsed ==
  /\ voiceRequest
  /\ \E parsed \in BOOLEAN : toast' = IF parsed THEN toast ELSE showToast(TRUE)
  /\ voiceRequest' = FALSE
  /\ isAiLoading' = FALSE
  /\ lastOp' = Op("voiceParsed", 0, isAiLoading, aiRequest.active)
  /\ UNCHANGED <<items, categories, sets, logs, familyId, phase, undoVars, uiVars,
                 isAiEnabled, aiRequest, remoteVars, now, todayStr, editingItem,
                 isEditModalOpen, online, nextId, famVars, gwVars,
                 selectedCategoryFilter, isRecording>>

----------------------------------------------------------------------------
(* Preferences, the clock and a new session *)

\* the AI switch of the settings (App.tsx:1807)
SetIsAiEnabled ==
  /\ Mounted
  /\ isAiEnabled' = ~isAiEnabled
  /\ lastOp' = NoOp
  /\ UNCHANGED <<items, categories, sets, logs, familyId, phase, undoVars, uiVars,
                 isAiLoading, aiRequest, remoteVars, now, todayStr, sideVars, nextId, extVars>>

\* the confirmation switch of the settings (App.tsx:1946)
SetConfirmDelete ==
  /\ Mounted
  /\ confirmDelete' = ~confirmDelete
  /\ lastOp' = NoOp
  /\ UNCHANGED <<items, categories, sets, logs, familyId, phase, undoVars,
                 deleteConfirmModal, categoryModal, itemToUpdateAfterCategory,
                 aiVars, remoteVars, now, todayStr, sideVars, nextId, extVars>>

\* time passes
Tick ==
  /\ now < MaxNow
  /\ now' = now + 1
  /\ lastOp' = NoOp
  /\ UNCHANGED <<items, categories, sets, logs, familyId, phase, undoVars, uiVars,
                 aiVars, remoteVars, todayStr, sideVars, nextId, extVars>>

----------------------------------------------------------------------------
(* Editing an item (App.tsx:1203-1207, 1348, 2095-2154) *)

\* what the user leaves in the name field of the edit modal
EditNames == {<<"B">>, <<"c">>}

\* the pencil of a row of the buy view or of the history
OpenEditModal ==
  /\ Mounted
  /\ ~isEditModalOpen
  /\ \E k \in 1..Len(items) : editingItem' = items[k]
  /\ isEditModalOpen' = TRUE
  /\ lastOp' = NoOp
  /\ UNCHANGED <<items, categories, sets, logs, familyId, phase, undoVars, uiVars,
                 aiVars, remoteVars, now, todayStr, toast, online, nextId, extVars>>

\* the close and cancel buttons of the edit modal (App.tsx:2095, 2135)
CancelEditModal ==
  /\ isEditModalOpen
  /\ isEditModalOpen' = FALSE
  /\ lastOp' = NoOp
  /\ UNCHANGED <<items, categories, sets, logs, familyId, phase, undoVars, uiVars,
                 aiVars, remoteVars, now, todayStr, editingItem, toast, online, nextId, extVars>>

\* the setItems updater of the save button (App.tsx:2138-2139)
editedItems(prev, editing, editItemName, editItemCategoryId) ==
  [k \in 1..Len(prev) |->
     IF prev[k].id = editing.id
     THEN [editing EXCEPT !.name = editItemName, !.categoryId = editItemCategoryId]
     ELSE prev[k]]

\* the row the save button sends (App.tsx:2143-2150)
editedRow(editing, fam, editItemName, editItemCategoryId) ==
  DbItem(editing.id, editItemName, editing.completed, editItemCategoryId, fam,
         editing.purchaseCount)

\* the save button of the edit modal (App.tsx:2137-2154)
SaveEditedItem(editItemName, editItemCategoryId) ==
  /\ isEditModalOpen
  /\ editItemCategoryId \in CategoryIds
  /\ items' = editedItems(items, editingItem, editItemName, editItemCategoryId)
  /\ Push(IF familyId # Undefined
          THEN <<upsertItem(editedRow(editingItem, familyId, editItemName,
                                      editItemCategoryId))>>
          ELSE <<>>)
  /\ isEditModalOpen' = FALSE
  /\ lastOp' = Op("editItem", editingItem.id, 0, editingItem.onList)
  /\ UNCHANGED <<categories, sets, logs, familyId, phase, undoVars, uiVars, aiVars,
                 now, todayStr, editingItem, toast, online, nextId, extVars>>

----------------------------------------------------------------------------
(* The datastore out of reach, and the notifications *)

\* the connection to the datastore is lost or comes back
Outage ==
  /\ online' = ~online
  /\ lastOp' = NoOp
  /\ UNCHANGED <<items, categories, sets, logs, familyId, phase, undoVars, uiVars,
                 aiVars, remoteVars, now, todayStr, editingItem, isEditModalOpen,
                 toast, nextId, extVars>>

\* a client that takes back the item of the request that failed
pushFailedRolledBack(st, q) == [st EXCEPT !.items = onDelete(@, q.row.id)]

\* what the client does when the promise of a request resolves false:
\* console.error in upsertItem / deleteItem, the call sites drop the promise
\* (App.tsx:2748-2750, 2763-2765)
pushFailed(st, q) == st

\* the promise of a request that was not served resolves false
PushFailed ==
  /\ failing # <<>>
  /\ LET st == pushFailed([items |-> items, categories |-> categories,
                           logs |-> logs, sets |-> sets, toast |-> toast],
                          Head(failing))
     IN  /\ items' = st.items
         /\ categories' = st.categories
         /\ logs' = st.logs
         /\ sets' = st.sets
         /\ toast' = st.toast
  /\ failing' = Tail(failing)
  /\ lastOp' = Op("pushFailed", Head(failing).row.id, 0, Head(failing).kind)
  /\ UNCHANGED <<familyId, phase, undoVars, uiVars, aiVars, rows, net, doneAt, now,
                 todayStr, editingItem, isEditModalOpen, online, nextId, extVars>>

\* the timer of showToast fires after 3 s (App.tsx:433)
ToastTimer ==
  /\ toast # NoToast
  /\ toast' = NoToast
  /\ lastOp' = NoOp
  /\ UNCHANGED <<items, categories, sets, logs, familyId, phase, undoVars, uiVars,
                 aiVars, remoteVars, now, todayStr, editingItem, isEditModalOpen,
                 online, nextId, extVars>>

\* The app is closed and opened again: the useState initialisers run
\* (App.tsx:126-161). What the localStorage effect saved is read back
\* (categories, sets, logs and the preferences); everything else starts anew.
Restart ==
  /\ Mounted
  /\ items' = <<>>
  /\ familyId' = Undefined
  /\ phase' = "mounted"
  /\ lastCompletedItem' = Undefined
  /\ showCompletedUndoToast' = FALSE
  /\ lastDeletedItem' = NoItem
  /\ showUndoToast' = FALSE
  /\ deleteConfirmModal' = NullCat
  /\ categoryModal' = ClosedModal
  /\ itemToUpdateAfterCategory' = NoPending
  /\ isAiLoading' = FALSE
  /\ aiRequest' = NoRequest
  /\ net' = <<>>
  /\ failing' = <<>>
  /\ editingItem' = NoItem
  /\ isEditModalOpen' = FALSE
  /\ toast' = NoToast
  /\ familyMembers' = <<>>
  /\ isOwner' = FALSE
  /\ currentModelIndex' = 0
  /\ calls' = [c \in CallIds |-> IdleCall]
  /\ selectedCategoryFilter' = All
  /\ isRecording' = FALSE
  /\ voiceRequest' = FALSE
  /\ lastOp' = NoOp
  /\ UNCHANGED <<categories, sets, logs, confirmDelete, isAiEnabled, rows, doneAt,
                 now, todayStr, online, nextId, tgUser, family>>

----------------------------------------------------------------------------
(* The initial state *)

\* DEFAULT_CATEGORIES of ./constants
DEFAULT_CATEGORIES ==
  <<[id |-> 50, name |-> <<"D">>, emoji |-> "milk"], systemNone>>

\* a set registry that an earlier session saved
SavedSets ==
  <<[id |-> 60, name |-> <<"s">>, emoji |-> "box", usageCount |-> 0,
     items |-> <<Tuple(<<"b">>, <<"V">>, "ear"), Tuple(<<"a", "p">>, <<"d">>, "")>>]>>

\* another set of that registry
OtherSavedSets ==
  <<[id |-> 61, name |-> <<"t">>, emoji |-> "ear", usageCount |-> 0,
     items |-> <<Tuple(<<"a", "p">>, <<"D">>, "milk")>>]>>

\* the state after construction, with the Set Registry localStorage holds,
\* the user Telegram hands to the page and the owner of the user's family
InitOf(savedSets, user, owner) ==
  /\ items = <<>>
  /\ categories = DEFAULT_CATEGORIES
  /\ sets = savedSets
  /\ logs = <<>>
  /\ familyId = Undefined
  /\ phase = "mounted"
  /\ lastCompletedItem = Undefined
  /\ showCompletedUndoToast = FALSE
  /\ lastDeletedItem = NoItem
  /\ showUndoToast = FALSE
  /\ deleteConfirmModal = NullCat
  /\ confirmDelete = TRUE
  /\ categoryModal = ClosedModal
  /\ itemToUpdateAfterCategory = NoPending
  /\ isAiEnabled = FALSE
  /\ isAiLoading = FALSE
  /\ aiRequest = NoRequest
  /\ rows = {}
  /\ net = <<>>
  /\ now = TicksPerDay
  /\ todayStr = Undefined
  /\ editingItem = NoItem
  /\ isEditModalOpen = FALSE
  /\ toast = NoToast
  /\ online = TRUE
  /\ failing = <<>>
  /\ tgUser = user
  /\ familyMembers = <<>>
  /\ isOwner = FALSE
  /\ family = [owner_id |-> owner, members |-> <<Me, Spouse, Child>>]
  /\ currentModelIndex = 0
  /\ calls = [c \in CallIds |-> IdleCall]
  /\ selectedCategoryFilter = All
  /\ isRecording = FALSE
  /\ voiceRequest = FALSE
  /\ nextId = 1
  /\ doneAt = {}
  /\ lastOp = NoOp

\* this client's user owns the family
InitWith(savedSets) == InitOf(savedSets, Me, Me)

Init == InitWith(SavedSets)

\* with or without a Telegram user, who owns the family or is a member of it
InitFamily ==
  \E user \in {NullUser, Me}, owner \in {Me, Spouse} : InitOf(SavedSets, user, owner)

InitTwoSets == InitWith(SavedSets \o OtherSavedSets)

\* the selections of the partial-set modal
Selections == (SUBSET (1..2)) \ {{}}

Next ==
  \/ DailyRollover \/ AuthUser \/ AuthFailed \/ GetItems
  \/ OnInsert \/ OnUpdate \/ OnDelete
  \/ \E n \in RemoteNames, c \in RemoteCats : OtherInsert(n, c)
  \/ OtherToggle \/ OtherDelete
  \/ \E text \in InputNames, c \in CategoryIds \cup {DEPT_NONE}, onList \in BOOLEAN :
       HandleAddItemFromModal(text, c, onList)
  \/ \E text \in BulkTexts, c \in CategoryIds, onList \in BOOLEAN :
       HandleBulkAdd(text, c, onList)
  \/ ToggleHistoryItem
  \/ ToggleComplete \/ UndoCompletion \/ CompletedUndoTimer
  \/ PerformItemDelete \/ UndoDelete \/ UndoTimer
  \/ OpenCategoryModal \/ CancelCategoryModal
  \/ \E text \in InputNames, onList \in BOOLEAN : AddWithNewCategory(text, onList)
  \/ \E catName \in CatNames, catEmoji \in CatEmojis : SaveCategory(catName, catEmoji)
  \/ DeleteCategory \/ PerformDeleteCategory \/ CancelDeleteCategory
  \/ \E sel \in Selections : AddSpecificItemsFromSet(sel)
  \/ \E toAdd \in ParsedItems : AcceptParsedItems(toAdd)
  \/ \E text \in InputNames, onList \in BOOLEAN : CategorizeProduct(text, onList)
  \/ \E categoryName \in AiCatNames, suggestedEmoji \in {"", "ear"} :
       AiCategorized(categoryName, suggestedEmoji)
  \/ AiFailed
  \/ OpenEditModal \/ CancelEditModal
  \/ \E editItemName \in EditNames, c \in CategoryIds : SaveEditedItem(editItemName, c)
  \/ Outage \/ PushFailed \/ ToastTimer
  \/ SetIsAiEnabled \/ SetConfirmDelete \/ Tick \/ Restart

Spec == Init /\ [][Next]_vars

----------------------------------------------------------------------------
(* Specifications of parts of the program: the handlers a group of           *)
(* properties is about, the session start they need, and the inputs that     *)
(* make their cases happen                                                   *)

\* this client alone writes: every event is the echo of one of its pushes
NextEcho ==
  \/ DailyRollover \/ AuthUser \/ GetItems
  \/ OnInsert \/ OnUpdate
  \/ \E text \in {<<"a", "p">>, <<"b">>} : HandleAddItemFromModal(text, DEPT_NONE, TRUE)
  \/ ToggleComplete \/ UndoCompletion \/ CompletedUndoTimer

SpecEcho == Init /\ [][NextEcho]_vars

\* the realtime merge: this client and another one write, the events are merged
NextMerge ==
  \/ DailyRollover \/ AuthUser \/ GetItems
  \/ OnInsert \/ OnUpdate \/ OnDelete
  \/ \E n \in RemoteNames : OtherInsert(n, NullCat)
  \/ OtherToggle \/ OtherDelete
  \/ HandleAddItemFromModal(<<"a", "p">>, DEPT_NONE, TRUE)

SpecMerge == Init /\ [][NextMerge]_vars

\* the ways of adding an item that complete within one user action
NextAdd ==
  \/ DailyRollover
  \/ \E text \in InputNames, c \in {DEPT_NONE, 50}, onList \in BOOLEAN :
       HandleAddItemFromModal(text, c, onList)
  \/ \E text \in BulkTexts : HandleBulkAdd(text, DEPT_NONE, TRUE)
  \/ ToggleHistoryItem
  \/ \E sel \in Selections : AddSpecificItemsFromSet(sel)
  \/ SetIsAiEnabled
  \/ \E toAdd \in ParsedItems : AcceptParsedItems(toAdd)

SpecAdd == Init /\ [][NextAdd]_vars

\* the Category Registry: the user's operations and the implicit creations
NextCat ==
  \/ DailyRollover
  \/ OpenCategoryModal \/ SaveCategory(<<"V">>, "ear")
  \/ DeleteCategory \/ PerformDeleteCategory
  \/ \E sel \in Selections : AddSpecificItemsFromSet(sel)
  \/ SetIsAiEnabled
  \/ AcceptParsedItems(<<Tuple(<<"b">>, <<"v">>, "")>>)
  \/ CategorizeProduct(<<"b">>, TRUE)
  \/ \E categoryName \in AiCatNames : AiCategorized(categoryName, "")

SpecCat == Init /\ [][NextCat]_vars

\* deleting categories that items are in
NextDel ==
  \/ DailyRollover
  \/ \E text \in {<<"a", "p">>, <<"b">>}, c \in {DEPT_NONE, 50} :
       HandleAddItemFromModal(text, c, TRUE)
  \/ AddWithNewCategory(<<"b">>, TRUE)
  \/ OpenCategoryModal \/ CancelCategoryModal \/ SaveCategory(<<"V">>, "ear")
  \/ DeleteCategory \/ PerformDeleteCategory \/ CancelDeleteCategory
  \/ SetConfirmDelete

SpecDel == Init /\ [][NextDel]_vars

\* completions, their undo and the Purchase Log
NextLog ==
  \/ DailyRollover
  \/ \E text \in {<<"a", "p">>, <<"b">>} : HandleAddItemFromModal(text, DEPT_NONE, TRUE)
  \/ ToggleComplete \/ UndoCompletion \/ CompletedUndoTimer
  \/ Tick

SpecLog == Init /\ [][NextLog]_vars

\* sessions over several days
NextDay ==
  \/ DailyRollover \/ AuthUser \/ GetItems
  \/ OnInsert \/ OnUpdate
  \/ HandleAddItemFromModal(<<"a", "p">>, DEPT_NONE, TRUE)
  \/ ToggleComplete
  \/ Tick \/ Restart

SpecDay == Init /\ [][NextDay]_vars

\* the expansion of the sets of a registry of two
NextSet ==
  \/ DailyRollover
  \/ \E text \in {<<"a", "p">>, <<"b">>} : HandleAddItemFromModal(text, DEPT_NONE, FALSE)
  \/ \E sel \in Selections : AddSpecificItemsFromSet(sel)
  \/ ToastTimer

SpecSet == InitTwoSets /\ [][NextSet]_vars

\* the add modal of the buy view and of the history view, and the check marks
NextFin ==
  \/ DailyRollover
  \/ \E text \in InputNames, c \in {DEPT_NONE, 50}, onList \in BOOLEAN :
       HandleAddItemFromModal(text, c, onList)
  \/ ToggleComplete

SpecFin == Init /\ [][NextFin]_vars

\* a signed-in client: items added to the list or to the history only, and edited
NextEdit ==
  \/ DailyRollover \/ AuthUser
  \/ OnInsert \/ OnUpdate
  \/ \E text \in {<<"a", "p">>, <<"b">>}, onList \in BOOLEAN :
       HandleAddItemFromModal(text, DEPT_NONE, onList)
  \/ OpenEditModal \/ CancelEditModal
  \/ \E editItemName \in EditNames, c \in {DEPT_NONE, 50} : SaveEditedItem(editItemName, c)

SpecEdit == Init /\ [][NextEdit]_vars

\* a signed-in client checks items off over several days
NextToggle ==
  \/ DailyRollover \/ AuthUser
  \/ OnInsert \/ OnUpdate
  \/ \E text \in {<<"a", "p">>, <<"b">>} : HandleAddItemFromModal(text, DEPT_NONE, TRUE)
  \/ ToggleComplete
  \/ Tick

SpecToggle == Init /\ [][NextToggle]_vars

\* a signed-in client whose requests are served or fail
NextPush ==
  \/ DailyRollover \/ AuthUser
  \/ Outage \/ PushFailed
  \/ HandleAddItemFromModal(<<"a", "p">>, DEPT_NONE, TRUE)
  \/ ToggleComplete \/ UndoCompletion
  \/ PerformItemDelete

SpecPush == Init /\ [][NextPush]_vars

\* adds that await categorizeProduct, with bulk adds in between
NextAi ==
  \/ DailyRollover \/ SetIsAiEnabled
  \/ \E text \in {<<"a", "p">>, <<"b">>}, onList \in BOOLEAN : CategorizeProduct(text, onList)
  \/ \E categoryName \in AiCatNames : AiCategorized(categoryName, "")
  \/ AiFailed
  \/ \E text \in BulkTexts : HandleBulkAdd(text, DEPT_NONE, TRUE)
  \/ ToastTimer

SpecAi == Init /\ [][NextAi]_vars

\* the forms filled in or left blank: the add modal, the bulk add, the
\* category modal and the edit modal
NextBlank ==
  \/ DailyRollover
  \/ \E text \in {<<>>, <<" ">>, <<"a", "p">>}, onList \in BOOLEAN :
       HandleAddItemFromModal(text, DEPT_NONE, onList)
  \/ \E text \in {<<>>, <<<<" ">>>>, <<<<"b">>, <<>>>>} : HandleBulkAdd(text, DEPT_NONE, TRUE)
  \/ OpenCategoryModal
  \/ \E catName \in {<<>>, <<" ">>, <<"V">>} : SaveCategory(catName, "ear")
  \/ OpenEditModal \/ CancelEditModal
  \/ \E editItemName \in {<<>>, <<"c">>} : SaveEditedItem(editItemName, DEPT_NONE)

SpecBlank == Init /\ [][NextBlank]_vars

\* batches: bulk adds, one of them with a name on two lines, and set expansions
NextBatch ==
  \/ DailyRollover
  \/ \E text \in {<<<<"a", "p">>, <<" ", "A", "P">>>>, <<<<"b">>>>}, onList \in BOOLEAN :
       HandleBulkAdd(text, DEPT_NONE, onList)
  \/ \E sel \in Selections : AddSpecificItemsFromSet(sel)
  \/ ToggleHistoryItem
  \/ ToastTimer

SpecBatch == Init /\ [][NextBatch]_vars

\* the flows that create categories on their own, with no category modal:
\* every category that is not a default one was created by one of them
NextImplicit ==
  \/ DailyRollover \/ SetIsAiEnabled
  \/ DeleteCategory \/ PerformDeleteCategory
  \/ \E sel \in Selections : AddSpecificItemsFromSet(sel)
  \/ AcceptParsedItems(<<Tuple(<<"b">>, <<"v">>, "")>>)
  \/ CategorizeProduct(<<"b">>, TRUE)
  \/ \E categoryName \in AiCatNames : AiCategorized(categoryName, "")

SpecImplicit == Init /\ [][NextImplicit]_vars

\* the realtime merge into a store that holds items checked off here
NextUpdate ==
  \/ DailyRollover \/ AuthUser \/ GetItems
  \/ OnInsert \/ OnUpdate \/ OnDelete
  \/ OtherInsert(<<"B">>, NullCat)
  \/ OtherToggle \/ OtherDelete
  \/ HandleAddItemFromModal(<<"a", "p">>, DEPT_NONE, TRUE)
  \/ ToggleComplete

SpecUpdate == Init /\ [][NextUpdate]_vars

\* the family screen, for an owner, a member and a page without a user
NextFamily ==
  \/ DailyRollover \/ AuthUser \/ AuthFailed \/ GetItems
  \/ \E targetUserId \in {Spouse, Child} : RemoveFamilyMemberHandler(targetUserId)
  \/ \E member \in {Spouse, Child} : OtherLeaveFamily(member)
  \/ ToastTimer
  \/ Restart

SpecFamily == InitFamily /\ [][NextFamily]_vars

\* the gateway alone: the calls of the service functions, which share
\* currentModelIndex
NextGateway ==
  \/ DailyRollover
  \/ \E c \in CallIds : StartCall(c)
  \/ \E c \in CallIds, outcome \in {"ok"} \cup Errors : Settle(c, outcome)
  \/ \E c \in CallIds : Wake(c)
  \/ \E c \in CallIds : Return(c)

\* a request that was sent settles and a timer that was set fires
SpecGateway ==
  /\ Init /\ [][NextGateway]_vars
  /\ \A c \in CallIds :
       /\ WF_vars(\E outcome \in {"ok"} \cup Errors : Settle(c, outcome))
       /\ WF_vars(Wake(c))

\* the expansion of a set over items that were added and checked off before
NextHistory ==
  \/ DailyRollover
  \/ \E text \in {<<"a", "p">>, <<"b">>}, onList \in BOOLEAN :
       HandleAddItemFromModal(text, DEPT_NONE, onList)
  \/ \E sel \in Selections : AddSpecificItemsFromSet(sel)
  \/ ToggleComplete
  \/ ToastTimer

SpecHistory == Init /\ [][NextHistory]_vars

\* the buy view under a category filter
NextFilter ==
  \/ DailyRollover
  \/ \E text \in {<<"a", "p">>, <<"b">>}, c \in {DEPT_NONE, 50} :
       HandleAddItemFromModal(text, c, TRUE)
  \/ ToggleComplete
  \/ \E filter \in {All, DEPT_NONE, 50} : SetSelectedCategoryFilter(filter)
  \/ FilterResetTimer

\* a timeout that stays set fires
SpecFilter == Init /\ [][NextFilter]_vars /\ WF_vars(FilterResetTimer)

\* the two flows of the buy view that await the AI service
NextVoice ==
  \/ DailyRollover \/ SetIsAiEnabled
  \/ StartVoiceDictation \/ VoiceResult \/ VoiceEnded \/ VoiceParsed
  \/ \E text \in {<<"a", "p">>, <<"b">>} : CategorizeProduct(text, TRUE)
  \/ \E categoryName \in AiCatNames : AiCategorized(categoryName, "")
  \/ AiFailed
  \/ ToastTimer

SpecVoice == Init /\ [][NextVoice]_vars

\* adds, deletes and their undo against the session start and the events of
\* both clients
NextUnique ==
  \/ DailyRollover \/ AuthUser \/ GetItems
  \/ OnInsert \/ OnUpdate \/ OnDelete
  \/ OtherInsert(<<"B">>, NullCat) \/ OtherDelete
  \/ HandleAddItemFromModal(<<"b">>, DEPT_NONE, TRUE)
  \/ PerformItemDelete \/ UndoDelete

SpecUnique == Init /\ [][NextUnique]_vars

\* the history view of a connected client: items go off the list and on again
NextOffList ==
  \/ DailyRollover \/ AuthUser \/ GetItems
  \/ OnInsert \/ OnUpdate \/ OnDelete
  \/ \E text \in {<<"a", "p">>, <<"b">>} : HandleAddItemFromModal(text, DEPT_NONE, TRUE)
  \/ ToggleHistoryItem

SpecOffList == Init /\ [][NextOffList]_vars

\* a session in which the user leaves the family and goes on shopping
NextIsolation ==
  \/ DailyRollover \/ AuthUser \/ GetItems
  \/ OnInsert \/ OnUpdate
  \/ OtherInsert(<<"B">>, NullCat)
  \/ HandleAddItemFromModal(<<"b">>, DEPT_NONE, TRUE)
  \/ ToggleComplete
  \/ LeaveFamilyHandler

SpecIsolation == Init /\ [][NextIsolation]_vars

----------------------------------------------------------------------------
(* Properties *)

\* the events the realtime channel can deliver
Events ==
  { [type |-> t, row |-> DbItem(id, n, b, c, MyFamily, pc), own |-> FALSE] :
      t \in {"INSERT", "UPDATE", "DELETE"}, id \in (1..MaxIds) \cup {RemoteId},
      n \in RemoteNames, b \in BOOLEAN, c \in RemoteCats, pc \in 0..1 }

(* C2: merging a realtime event (insert, update or delete) twice into the    *)
(* Item Store gives the store that merging it once gives, and an insert      *)
(* event whose id the store holds leaves the store as it is.                 *)
C2_MergeIdempotent ==
  \A e \in Events :
    LET once == mergeEvent(items, e)
    IN  /\ mergeEvent(once, e) = once
        /\ e.type = "INSERT" /\ FindById(items, e.row.id) # 0 => once = items

\* the echo of this client's own insert has been merged into a store that
\* held the item already, next to another item
C2_Witness ==
  /\ lastOp.op = "INSERT" /\ lastOp.arg = TRUE
  /\ FindById(items, lastOp.id) # 0
  /\ Len(items) >= 2

(* C3: merging the echo of one of this client's own pushes leaves completed  *)
(* and purchaseCount of the item as the client's operations left them: no    *)
(* later local change (an undo of the completion pushed) is reverted.        *)
C3_EchoKeepsLocalChange ==
  [][ lastOp'.op \in {"INSERT", "UPDATE"} /\ lastOp'.arg = TRUE
        => \A k \in 1..Len(items) :
             items[k].id = lastOp'.id
               => /\ items'[k].completed = items[k].completed
                  /\ items'[k].purchaseCount = items[k].purchaseCount ]_vars

(* C4: every item of the Item Store is completed exactly when its            *)
(* completedAt is set.                                                       *)
C4_CompletedIffStamped ==
  \A k \in 1..Len(items) : items[k].completed <=> items[k].completedAt # Undefined

\* the handlers that add items within one user action
AddOps == {"add", "bulkAdd", "reAdd", "addFromSet", "acceptParsed"}

(* C1: an add (manual, history re-add, bulk, set expansion, accepted         *)
(* dictation) leaves every item of the store in the store under its id and   *)
(* name, and as many items of each name the store held (compared in lower    *)
(* case) as before: a name that matches an item never makes another item.    *)
C1_MergeByNameOnAdd ==
  [][ lastOp'.op \in AddOps
        => \A k \in 1..Len(items) :
             /\ CountName(items', toLowerCase(items[k].name))
                  = CountName(items, toLowerCase(items[k].name))
             /\ \E j \in 1..Len(items') :
                  items'[j].id = items[k].id /\ items'[j].name = items[k].name ]_vars

\* "ap" was added, then " AP": the store holds the one item "Ap"
C1_Witness ==
  /\ lastOp.op = "add" /\ lastOp.pre = 1
  /\ Len(items) = 1
  /\ items[1].name = <<"A", "p">>

\* the positions of the sentinel in the registry
Sentinels == {k \in 1..Len(categories) : categories[k].id = DEPT_NONE}

(* C5: the Category Registry holds exactly one category of the sentinel id,  *)
(* and it is the last of the list.                                           *)
C5_OneSentinelLast == Sentinels = {Len(categories)} /\ Len(categories) >= 1

\* the default category was edited while a created one was in the registry
C5_Witness ==
  /\ lastOp.op = "saveCategory" /\ lastOp.id = 50
  /\ Len(categories) = 3

\* the registry without the category of that id, the order kept
Without(cats, id) == SelectSeq(cats, LAMBDA c : c.id # id)

(* C6: the deletion of a category C other than the sentinel leaves each item *)
(* that was in C in the sentinel category and otherwise as it was, every     *)
(* other item as it was, and the registry without C in the order it had; a   *)
(* deletion asked for the sentinel changes neither store nor registry.       *)
C6_DeleteCategoryReassigns ==
  [][ lastOp'.op = "deleteCategory"
        => /\ lastOp'.id # DEPT_NONE /\ lastOp'.arg
             => /\ Len(items') = Len(items)
                /\ \A k \in 1..Len(items) :
                     items'[k] = IF items[k].categoryId = lastOp'.id
                                 THEN [items[k] EXCEPT !.categoryId = DEPT_NONE]
                                 ELSE items[k]
                /\ \A k \in 1..Len(items') : items'[k].categoryId # lastOp'.id
                /\ categories' = Without(categories, lastOp'.id)
           /\ lastOp'.id = DEPT_NONE
             => items' = items /\ categories' = categories ]_vars

\* a category was deleted that one of the two items of the store was in
C6_Witness ==
  /\ lastOp.op = "deleteCategory" /\ lastOp.arg = TRUE /\ lastOp.pre = 1
  /\ lastOp.id \notin CategoryIds
  /\ Len(items) = 2

(* C7: toggleComplete on a completed item of purchaseCount c and then        *)
(* toggleComplete on it again leave it completed with purchaseCount c + 1.   *)
C7_UncheckRecheckCountsOnce ==
  [][ ( /\ lastOp.op = "toggleComplete" /\ lastOp.arg = TRUE
        /\ lastOp'.op = "toggleComplete" /\ lastOp'.id = lastOp.id )
        => \E k \in 1..Len(items') :
             /\ items'[k].id = lastOp.id
             /\ items'[k].completed
             /\ items'[k].purchaseCount = lastOp.pre.count + 1 ]_vars

\* the item was unchecked and checked again by two calls in a row
C7_Witness ==
  /\ lastOp.op = "toggleComplete" /\ lastOp.pre.recheck
  /\ \E k \in 1..Len(items) :
       items[k].id = lastOp.id /\ items[k].completed /\ items[k].purchaseCount = 2

\* the entries of the Purchase Log of other days than that of t
OtherDays(ls, t) == SelectSeq(ls, LAMBDA l : startOfDay(l.date) # startOfDay(t))

\* how many tuples of the name the sequence holds
Tuples(entries, name) == Cardinality({j \in 1..Len(entries) : entries[j].name = name})

(* C8: a completion appends one tuple of the item to today's entry of the    *)
(* Purchase Log, so that two completions of an item on one day leave two;    *)
(* the undo of a completion of today removes the last tuple of the item's    *)
(* name from today's entry and nothing else.                                 *)
C8_OneTuplePerCompletion ==
  [][ /\ lastOp'.op = "toggleComplete" /\ ~lastOp'.arg
        => \E k \in 1..Len(items) :
             /\ items[k].id = lastOp'.id
             /\ TodayItems(logs', now)
                  = Append(TodayItems(logs, now),
                           [name |-> items[k].name, categoryId |-> items[k].categoryId])
             /\ OtherDays(logs', now) = OtherDays(logs, now)
      /\ lastOp'.op = "undoCompletion"
        => \A k \in 1..Len(items) :
             /\ items[k].id = lastOp'.id
             /\ items[k].completed
             /\ items[k].completedAt # Undefined
             /\ startOfDay(items[k].completedAt) = startOfDay(now)
             => LET today == TodayItems(logs, now)
                    S == {j \in 1..Len(today) : today[j].name = items[k].name}
                IN  /\ S # {}
                    /\ TodayItems(logs', now)
                         = [j \in 1..(Len(today) - 1) |->
                              IF j < MaxOf(S) THEN today[j] ELSE today[j + 1]]
                    /\ OtherDays(logs', now) = OtherDays(logs, now) ]_vars

\* the second completion of the day was undone: one tuple of the item is left
C8_Witness ==
  /\ lastOp.op = "undoCompletion"
  /\ \E k \in 1..Len(items) :
       /\ items[k].id = lastOp.id
       /\ ~items[k].completed
       /\ Tuples(TodayItems(logs, now), items[k].name) = 1

(* C9: when the session has started and the items are loaded, an item whose  *)
(* completion was on a calendar day before that of the session start is not  *)
(* completed, not on the list and has no completedAt.                        *)
C9_RolloverAtSessionStart ==
  phase = "ready" /\ lastOp.op = "getItems"
    => \A k \in 1..Len(items) :
         (\E d \in doneAt : d.id = items[k].id /\ startOfDay(d.at) < todayStr)
           => /\ ~items[k].completed
              /\ ~items[k].onList
              /\ items[k].completedAt = Undefined

\* the positions of the categories of that name (compared in lower case)
Named(cats, name) ==
  {j \in 1..Len(cats) : toLowerCase(cats[j].name) = toLowerCase(name)}

\* the positions of the items of that name (compared in lower case)
ItemsNamed(its, name) ==
  {j \in 1..Len(its) : toLowerCase(its[j].name) = toLowerCase(name)}

(* C10: the expansion of a set with a tuple whose name no item has and whose *)
(* category name no category has (both compared in lower case) leaves one    *)
(* category of that name in the registry, new, with the tuple's emoji,       *)
(* behind the categories there were and before the sentinel, and one item    *)
(* of the normalized name in the store, new, in that category, on the list,  *)
(* not completed and with purchaseCount 0.                                   *)
C10_SetExpansionCreates ==
  [][ lastOp'.op = "addFromSet"
        => \A i \in 1..Len(lastOp'.pre) :
             LET t == lastOp'.pre[i]
                 name == capName(t.name)
             IN  /\ ItemsNamed(items, name) = {}
                 /\ Named(categories, t.categoryName) = {}
                 /\ \A j \in 1..Len(lastOp'.pre) :
                      j # i => /\ toLowerCase(capName(lastOp'.pre[j].name)) # toLowerCase(name)
                               /\ toLowerCase(lastOp'.pre[j].categoryName)
                                    # toLowerCase(t.categoryName)
                 => \E c \in 1..Len(categories'), x \in 1..Len(items') :
                      /\ Named(categories', t.categoryName) = {c}
                      /\ categories'[c].name = t.categoryName
                      /\ categories'[c].emoji = IF t.emoji = "" THEN "box" ELSE t.emoji
                      /\ categories'[c].id \notin CategoryIds
                      /\ c >= Len(categories) /\ c < Len(categories')
                      /\ categories'[Len(categories')].id = DEPT_NONE
                      /\ ItemsNamed(items', name) = {x}
                      /\ items'[x] = ProductItem(items'[x].id, name, categories'[c].id,
                                                 FALSE, TRUE, 0, Undefined)
                      /\ \A k \in 1..Len(items) : items[k].id # items'[x].id ]_vars

\* the set was expanded with its tuple (b, V): the category V and the item B
\* in it were made by the one expansion
C10_Witness ==
  /\ lastOp.op = "addFromSet"
  /\ \E c \in 1..Len(categories), x \in 1..Len(items) :
       /\ categories[c].name = <<"V">>
       /\ items[x].name = <<"B">>
       /\ items[x].categoryId = categories[c].id
       /\ items[x].id = categories[c].id + 1

(* C11: an expansion of a set, of all its tuples or of some, raises the      *)
(* usageCount of that set by one, whatever the tuples did to the Item Store, *)
(* and leaves the other sets and the tuples of every set as they were.       *)
C11_ExpansionCountsOnce ==
  [][ lastOp'.op = "addFromSet"
        => /\ Len(sets') = Len(sets)
           /\ \A k \in 1..Len(sets) :
                sets'[k] = IF sets[k].id = lastOp'.id
                           THEN [sets[k] EXCEPT !.usageCount = @ + 1]
                           ELSE sets[k] ]_vars

\* both tuples of the first set were added at once, after the second set had
\* been expanded: each set was used once
C11_Witness ==
  /\ lastOp.op = "addFromSet" /\ lastOp.id = 60 /\ Len(lastOp.pre) = 2
  /\ sets[1].usageCount = 1 /\ sets[2].usageCount = 1
  /\ Len(items) = 2

\* the item of its with the id
ItemOf(its, id) == its[FindById(its, id)]

\* the Item Store a call of finalizeAddItem in the present state leaves
Added(name, categoryId, onList) ==
  finalizeAddItem(items, familyId, Start, name, categoryId, onList).items

\* the item the name of the call matches, 0 when none
Existing(name) == FindByName(items, toLowerCase(capName(name)))

(* C12: whatever name, category and onList finalizeAddItem is called with,   *)
(* the item it matches ends with onList = requested or existing, and every   *)
(* item that was on the list is still on it.                                 *)
C12_AddNeverTakesOff ==
  \A name \in InputNames, c \in CategoryIds, onList \in BOOLEAN :
    LET after == Added(name, c, onList)
        k     == Existing(name)
    IN  /\ k # 0 => /\ FindById(after, items[k].id) # 0
                    /\ ItemOf(after, items[k].id).onList = (onList \/ items[k].onList)
        /\ \A j \in 1..Len(items) :
             items[j].onList => /\ FindById(after, items[j].id) # 0
                                /\ ItemOf(after, items[j].id).onList

\* the only item is on the list, and the last operation was an add of its
\* name from the history view (onList false) that made no new item
C12_Witness ==
  /\ lastOp.op = "add" /\ lastOp.arg = FALSE /\ lastOp.pre = 1
  /\ Len(items) = 1 /\ items[1].onList

(* C13: finalizeAddItem on an existing item with onList true leaves it not   *)
(* completed, with no completedAt and with its purchaseCount; with onList    *)
(* false it leaves completed, completedAt and purchaseCount as they were.    *)
C13_ReAddReactivates ==
  \A name \in InputNames, c \in CategoryIds, onList \in BOOLEAN :
    LET k == Existing(name)
    IN  k # 0 =>
          LET x == ItemOf(Added(name, c, onList), items[k].id)
          IN  /\ x.purchaseCount = items[k].purchaseCount
              /\ IF onList
                 THEN ~x.completed /\ x.completedAt = Undefined
                 ELSE /\ x.completed = items[k].completed
                      /\ x.completedAt = items[k].completedAt

\* the only item was bought once, and the last operation was an add of its
\* name to the list that made no new item: it is to be bought again
C13_Witness ==
  /\ lastOp.op = "add" /\ lastOp.arg = TRUE /\ lastOp.pre = 1
  /\ Len(items) = 1 /\ items[1].onList
  /\ items[1].purchaseCount = 1 /\ ~items[1].completed
  /\ items[1].completedAt = Undefined

(* C14: finalizeAddItem overwrites the categoryId of an existing item only   *)
(* when a category other than the sentinel is supplied, and a new item gets  *)
(* the supplied category, the sentinel when none is supplied.                *)
C14_CategoryOnAdd ==
  \A name \in InputNames, onList \in BOOLEAN :
    LET k == Existing(name)
    IN  IF k # 0
        THEN \A c \in CategoryIds :
               ItemOf(Added(name, c, onList), items[k].id).categoryId
                 = IF c # DEPT_NONE THEN c ELSE items[k].categoryId
        ELSE \A c \in CategoryIds \cup {NullCat} :
               LET after == Added(name, c, onList)
               IN  /\ Len(after) = Len(items) + 1
                   /\ after[1].name = capName(name)
                   /\ after[1].categoryId = (IF c = NullCat THEN DEPT_NONE ELSE c)
                   /\ \A j \in 1..Len(items) : after[j + 1] = items[j]

\* a bulk add with no category made no new item: the items it matched were in
\* the category 50 and are still
C14_Witness ==
  /\ lastOp.op = "bulkAdd" /\ lastOp.pre = Len(items)
  /\ items # <<>>
  /\ \A k \in 1..Len(items) : items[k].categoryId = 50

(* C15: no operation writes to the datastore a row of an item that is off    *)
(* the list and stays off it: every row a step writes is the row of an item  *)
(* that is on the list after the step.                                       *)
C15_HistoryOnlyStaysLocal ==
  [][ \A r \in rows' \ rows :
        \A k \in 1..Len(items') : items'[k].id = r.id => items'[k].onList ]_vars

(* C16: toggleComplete on an uncompleted item completes it, adds one to its  *)
(* purchaseCount and stamps completedAt; with a family it writes the row     *)
(* with is_bought true and the new count; it appends the item's tuple at the *)
(* end of today's entry of the Purchase Log, a new entry if there was none;  *)
(* the other items and the entries of other days stay as they were.          *)
C16_CheckOff ==
  [][ (lastOp'.op = "toggleComplete" /\ ~lastOp'.arg)
        => LET k == FindById(items, lastOp'.id)
               X == items[k]
           IN  /\ items' = [items EXCEPT ![k] = [X EXCEPT !.completed = TRUE,
                                                          !.purchaseCount = @ + 1,
                                                          !.completedAt = now]]
               /\ IF familyId # Undefined
                  THEN DbItem(X.id, X.name, TRUE, X.categoryId, familyId,
                              X.purchaseCount + 1) \in rows'
                  ELSE rows' = rows
               /\ TodayItems(logs', now)
                    = Append(TodayItems(logs, now),
                             [name |-> X.name, categoryId |-> X.categoryId])
               /\ OtherDays(logs', now) = OtherDays(logs, now)
               /\ Len(logs') = IF FindLog(logs, now) = 0 THEN Len(logs) + 1
                               ELSE Len(logs) ]_vars

\* with a family, the second item was checked off on a day that had an entry
\* with a tuple already, a day after the first entry of the log
C16_Witness ==
  /\ lastOp.op = "toggleComplete" /\ ~lastOp.arg
  /\ familyId # Undefined
  /\ Len(items) = 2 /\ Len(logs) = 2
  /\ Len(TodayItems(logs, now)) = 2
  /\ \E r \in rows : r.id = lastOp.id /\ r.is_bought /\ r.purchase_count = lastOp.pre.count + 1

(* C17: undoCompletion directly after the toggleComplete that completed an   *)
(* item leaves the item not completed, with no completedAt and with the      *)
(* purchaseCount it had before the toggle, and today's entry of the log with *)
(* the tuples it had before the toggle; no purchaseCount is ever negative.   *)
C17_UndoReversesCompletion ==
  /\ [][ ( /\ lastOp.op = "toggleComplete" /\ ~lastOp.arg
           /\ lastOp'.op = "undoCompletion" )
           => LET k == FindById(items', lastOp.id)
              IN  /\ k # 0
                  /\ ~items'[k].completed
                  /\ items'[k].completedAt = Undefined
                  /\ items'[k].purchaseCount = lastOp.pre.count
                  /\ TodayItems(logs', now') = lastOp.pre.log ]_vars
  /\ [](\A k \in 1..Len(items) : items[k].purchaseCount >= 0)

\* the completion of an item bought once before, on a day with a tuple in the
\* log, was undone by the step after it
C17_Witness ==
  /\ lastOp.op = "undoCompletion" /\ lastOp.id # Undefined /\ lastOp.arg
  /\ \E k \in 1..Len(items) :
       /\ items[k].id = lastOp.id
       /\ ~items[k].completed /\ items[k].purchaseCount = 1
  /\ Len(TodayItems(logs, now)) = 1

(* C18: toggleComplete on a completed item leaves it not completed, with no  *)
(* completedAt and with its purchaseCount; it removes from today's entry of  *)
(* the log the last tuple of the item's name, if there is one, and leaves    *)
(* the log as it was otherwise; the entries of other days stay.              *)
C18_ManualUncheck ==
  [][ (lastOp'.op = "toggleComplete" /\ lastOp'.arg)
        => LET k == FindById(items, lastOp'.id)
               X == items[k]
               today == TodayItems(logs, now)
               S == {j \in 1..Len(today) : today[j].name = X.name}
           IN  /\ items' = [items EXCEPT ![k] = [X EXCEPT !.completed = FALSE,
                                                          !.completedAt = Undefined]]
               /\ items'[k].purchaseCount = X.purchaseCount
               /\ IF S = {} THEN logs' = logs
                  ELSE /\ TodayItems(logs', now) = RemoveAt(today, MaxOf(S))
                       /\ OtherDays(logs', now) = OtherDays(logs, now)
                       /\ Len(logs') = Len(logs) ]_vars

\* an item was unchecked on the second day of the log; a tuple of today is left
C18_Witness ==
  /\ lastOp.op = "toggleComplete" /\ lastOp.arg
  /\ Len(logs) = 2
  /\ Len(TodayItems(logs, now)) = 1
  /\ \E k \in 1..Len(items) :
       /\ items[k].id = lastOp.id
       /\ ~items[k].completed /\ items[k].completedAt = Undefined
       /\ items[k].purchaseCount = 1

C20_FailureNotified ==
  [][ lastOp'.op = "pushFailed" => toast' = showToast(TRUE) ]_vars

\* the add that awaited categorizeProduct put its item, with the sentinel
\* category, in front of the Item Store and changed nothing else in it
FellBack ==
  /\ Len(items') = Len(items) + 1
  /\ items'[1].name = capName(aiRequest.name)
  /\ items'[1].categoryId = DEPT_NONE
  /\ items'[1].onList = aiRequest.onList
  /\ \A j \in 1..Len(items) : items'[j + 1] = items[j]
  /\ ~isAiLoading'
  /\ categories' = categories

(* C21: when categorizeProduct fails or returns nothing, the item is added   *)
(* once with the sentinel category and the requested onList, an error        *)
(* notification is put up, the loading flag is cleared, no category is       *)
(* created and no other item changes.                                        *)
C21_AiFailureFallsBack ==
  [][ lastOp'.op = "aiFailed" => FellBack /\ toast' = showToast(TRUE) ]_vars

(* C22: the handlers return on an empty or blank input before they update    *)
(* anything, so that no item and no category with an empty name is ever      *)
(* stored.                                                                   *)
C22_NoEmptyNameStored ==
  /\ \A k \in 1..Len(items) : items[k].name # <<>>
  /\ \A k \in 1..Len(categories) : categories[k].name # <<>>

\* nothing is in flight: the snapshot is applied, every event is delivered and
\* no request is waiting to fail
Quiescent ==
  /\ phase = "ready"
  /\ net = <<>>
  /\ failing = <<>>
  /\ ~aiRequest.active

\* the items on the list are the rows of the family, field by field
Mirrored ==
  LET ours == {r \in rows : r.family_id = familyId}
      listed == {k \in 1..Len(items) : items[k].onList}
  IN  /\ {items[k].id : k \in listed} = RowIds(ours)
      /\ \A k \in listed :
           \E r \in ours :
             /\ r.id = items[k].id
             /\ r.text = items[k].name
             /\ categoryOrNone(r.category) = items[k].categoryId
             /\ r.is_bought = items[k].completed
             /\ r.purchase_count = items[k].purchaseCount

(* C25: when every request and every realtime event has been delivered, the  *)
(* ids of the items on the list are the ids of the family's rows and each    *)
(* such item has the name, category, completed flag and purchaseCount of its *)
(* row.                                                                      *)
C25_StoreMirrorsDatastore == Quiescent => Mirrored

\* the names of its, in lower case
LowerNames(its) == {toLowerCase(its[k].name) : k \in 1..Len(its)}

(* C26: a bulk add, a set expansion or an acceptance of parsed items leaves  *)
(* one item for a name that no item had before it, also when two tuples of   *)
(* the batch have that name.                                                 *)
C26_MergeInsideBatch ==
  [][ lastOp'.op \in {"bulkAdd", "addFromSet", "acceptParsed"}
        => \A n \in LowerNames(items') :
             CountName(items, n) = 0 => CountName(items', n) = 1 ]_vars

(* C27: when an item of the name entered the Item Store while the add of     *)
(* that name awaited categorizeProduct, the add merges into it when it       *)
(* resumes and makes no item.                                                *)
C27_MergeAcrossAwait ==
  [][ ( /\ lastOp'.op \in {"aiCategorized", "aiFailed"}
        /\ CountName(items, toLowerCase(aiRequest.name)) > 0 )
        => Len(items') = Len(items) ]_vars

\* the positions of the categories that are not default ones
Created(cats) ==
  {k \in 1..Len(cats) :
     \A d \in 1..Len(DEFAULT_CATEGORIES) : cats[k].id # DEFAULT_CATEGORIES[d].id}

(* C28: where categories are created by set expansions, acceptances of       *)
(* parsed items and adds categorized by the service only, no two created     *)
(* categories have the same name, upper and lower case taken as equal, and   *)
(* none of these flows removes a category.                                   *)
C28_ImplicitCategoryOnce ==
  [][ lastOp'.op \in {"addFromSet", "acceptParsed", "aiCategorized"}
        => /\ \A k, j \in Created(categories') :
                toLowerCase(categories'[j].name) = toLowerCase(categories'[k].name)
                  => j = k
           /\ \A k \in 1..Len(categories) :
                \E j \in 1..Len(categories') : categories'[j] = categories[k] ]_vars

\* next is prev with the four fields of the items of the row's id taken from
\* the row, and nothing else changed
UpdatedOnly(prev, next, row) ==
  /\ Len(next) = Len(prev)
  /\ \A k \in 1..Len(prev) :
       IF prev[k].id = row.id
       THEN /\ next[k].name = row.text
            /\ next[k].categoryId = categoryOrNone(row.category)
            /\ next[k].completed = row.is_bought
            /\ next[k].purchaseCount = row.purchase_count
            /\ next[k].id = prev[k].id
            /\ next[k].onList = prev[k].onList
            /\ next[k].completedAt = prev[k].completedAt
       ELSE next[k] = prev[k]

\* next is prev without the items of the id, the others in their order
DeletedOnly(prev, next, id) ==
  next = SelectSeq(prev, LAMBDA i : i.id # id)

(* C29: merging a remote update for id X replaces name, categoryId, completed *)
(* and purchaseCount of the items of id X, leaves their onList and            *)
(* completedAt and every other item as they were, and changes nothing when    *)
(* no item has id X; merging a remote delete for id X removes the items of   *)
(* id X and nothing else. Checked for every event against every reachable    *)
(* store, and on every delivery step.                                        *)
C29_UpdateDeleteFrame ==
  /\ [](\A e \in Events :
          /\ e.type = "UPDATE" => UpdatedOnly(items, mergeEvent(items, e), e.row)
          /\ e.type = "UPDATE" /\ FindById(items, e.row.id) = 0 => mergeEvent(items, e) = items
          /\ e.type = "DELETE" => DeletedOnly(items, mergeEvent(items, e), e.row.id))
  /\ [][ /\ lastOp'.op = "UPDATE" => UpdatedOnly(items, items', Head(net).row)
         /\ lastOp'.op = "DELETE" => DeletedOnly(items, items', Head(net).row.id) ]_vars

\* an update has been merged into an item that carries the instant it was
\* checked off here, next to another item
C29_Witness ==
  /\ lastOp.op = "UPDATE"
  /\ Len(items) = 2
  /\ \E k \in 1..Len(items) :
       items[k].id = lastOp.id /\ items[k].completedAt # Undefined

\* the positions of the categories other than the sentinel
Plain(cats) == {k \in 1..Len(cats) : cats[k].id # DEPT_NONE}

(* C30: over every step, two categories other than the sentinel that are in  *)
(* the Category Registry before and after the step stand in the same order   *)
(* after it as before it, and a category the step created stands behind      *)
(* every category other than the sentinel that was there before.             *)
C30_CategoryOrderKept ==
  [][ /\ \A i, j \in Plain(categories) : \A a, b \in Plain(categories') :
           (i < j /\ categories'[a].id = categories[i].id
                  /\ categories'[b].id = categories[j].id) => a < b
      /\ \A b \in Plain(categories') :
           (\A j \in 1..Len(categories) : categories[j].id # categories'[b].id)
             => \A a \in Plain(categories') :
                  (\E i \in Plain(categories) : categories[i].id = categories'[a].id)
                    => a < b ]_vars

(* C23: when removeFamilyMemberHandler runs on a client whose user is not    *)
(* the owner of the family, or that has no user, it calls no remote function *)
(* and the member list, the family in the datastore and the toast stay as    *)
(* they were.                                                                *)
C23_NonOwnerRefusedLocally ==
  [][ (lastOp'.op = "removeFamilyMember" /\ (tgUser = NullUser \/ ~isOwner))
        => /\ ~lastOp'.arg
           /\ familyMembers' = familyMembers
           /\ family' = family
           /\ toast' = toast ]_vars

\* a signed-in member who does not own the family pressed remove on a member
\* of the list
C23_Witness ==
  /\ lastOp.op = "removeFamilyMember"
  /\ ~lastOp.arg
  /\ phase = "ready"
  /\ tgUser = Me
  /\ family.owner_id = Spouse
  /\ \E k \in 1..Len(familyMembers) : familyMembers[k] = lastOp.id

(* C24: a call of callWithRetry makes at most five delayed retries and at    *)
(* most one further attempt for each model behind the one it started with;   *)
(* an error that is neither retryable nor answered by a switch of the model  *)
(* fails the call in the step it arrives; currentModelIndex stays within     *)
(* MODELS and never goes down; and a call that is under way ends, resolved   *)
(* or rejected.                                                              *)
C24_CallWithRetryBounded ==
  /\ [](/\ currentModelIndex \in 0..(Len(MODELS) - 1)
        /\ \A c \in CallIds :
             /\ calls[c].delays <= DefaultRetries
             /\ calls[c].retries >= 0
             /\ calls[c].switches <= Len(MODELS) - 1 - calls[c].from)
  /\ [][ /\ currentModelIndex' >= currentModelIndex
         /\ (/\ lastOp'.op = "settle"
             /\ \/ lastOp'.arg = "other"
                \/ lastOp'.arg = "model" /\ currentModelIndex = Len(MODELS) - 1)
              => /\ calls'[lastOp'.id].status = "failed"
                 /\ calls'[lastOp'.id].delays = calls[lastOp'.id].delays
                 /\ calls'[lastOp'.id].switches = calls[lastOp'.id].switches ]_vars
  /\ \A c \in CallIds :
       (calls[c].status = "running") ~> (calls[c].status \in {"done", "failed"})

\* a call failed after it had switched the model and used all its retries
C24_Witness ==
  \E c \in CallIds :
    /\ calls[c].status = "failed"
    /\ calls[c].delays = DefaultRetries
    /\ calls[c].switches = Len(MODELS) - 1

LogDays(ls) == {startOfDay(ls[k].date) : k \in 1..Len(ls)}

(* C33: the Purchase Log never holds two entries of one calendar day. Over   *)
(* every step each entry stays in the log with its id and date, the entries  *)
(* of other days than today stay as they were, and the log grows by an       *)
(* entry only through a completion on a day that had none; a completion on   *)
(* a day that has an entry adds its tuple to that entry.                     *)
C33_OneLogEntryPerDay ==
  /\ [](\A i, j \in 1..Len(logs) :
          startOfDay(logs[i].date) = startOfDay(logs[j].date) => i = j)
  /\ [][ /\ \A k \in 1..Len(logs) : \E j \in 1..Len(logs') :
             /\ logs'[j].id = logs[k].id
             /\ logs'[j].date = logs[k].date
             /\ startOfDay(logs[k].date) # startOfDay(now) => logs'[j] = logs[k]
         /\ Len(logs') # Len(logs)
             => /\ lastOp'.op = "toggleComplete" /\ ~lastOp'.arg
                /\ FindLog(logs, now) = 0
                /\ Len(logs') = Len(logs) + 1
                /\ LogDays(logs') = LogDays(logs) \cup {startOfDay(now)}
         /\ (lastOp'.op = "toggleComplete" /\ ~lastOp'.arg /\ FindLog(logs, now) # 0)
             => /\ Len(logs') = Len(logs)
                /\ Len(TodayItems(logs', now)) = Len(TodayItems(logs, now)) + 1 ]_vars

\* a completion on the second day went into the entry that day had already,
\* next to the entry of the first day
C33_Witness ==
  /\ lastOp.op = "toggleComplete" /\ ~lastOp.arg
  /\ Len(logs) = 2
  /\ Len(TodayItems(logs, now)) = 2
  /\ \E k \in 1..Len(logs) :
       startOfDay(logs[k].date) # startOfDay(now) /\ logs[k].items # <<>>

\* the AI requests awaited
Outstanding == (IF aiRequest.active THEN 1 ELSE 0) + (IF voiceRequest THEN 1 ELSE 0)

(* C34: at most one AI request is outstanding in any state, and isAiLoading  *)
(* is true in every state in which one is outstanding.                       *)
C34_OneAiRequest ==
  /\ Outstanding <= 1
  /\ Outstanding >= 1 => isAiLoading

(* C35: no two items of the Item Store share an id, in any state reached by  *)
(* local adds, item deletes and their undo, the initial load and the remote  *)
(* insert, update and delete events.                                         *)
C35_ItemIdsUnique ==
  \A j, k \in 1..Len(items) : items[j].id = items[k].id => j = k

\* undoCompletion has just run on the item that was checked off and then
\* unchecked by the two steps before it
ReversedTwice ==
  /\ lastOp.op = "undoCompletion"
  /\ lastOp.pre.checked

(* C36: after toggleComplete checks X off, toggleComplete unchecks it and    *)
(* undoCompletion runs while the toast is shown, today's Purchase Log holds  *)
(* the tuples it held before the first toggle and the purchaseCount of X is  *)
(* not below its value before the first toggle.                              *)
C36_CompletionReversedOnce ==
  ReversedTwice =>
    /\ TodayItems(logs, now) = lastOp.pre.log
    /\ \A k \in 1..Len(items) :
         items[k].id = lastOp.id => items[k].purchaseCount >= lastOp.pre.count

\* the DELETE echo of this client's delete of the item it has just restored
\* is delivered in this step
EchoAfterUndo ==
  /\ lastOp.op = "undoDelete"
  /\ lastDeletedItem # NoItem
  /\ FindById(items, lastDeletedItem.id) # 0
  /\ net # <<>>
  /\ Head(net).type = "DELETE"
  /\ Head(net).own
  /\ Head(net).row.id = lastDeletedItem.id
  /\ lastOp'.op = "DELETE"

(* C37: an item restored by the undo of its delete stays in the Item Store   *)
(* when the DELETE echo of that delete is delivered afterwards.              *)
C37_UndoDeleteDurable ==
  [][EchoAfterUndo => FindById(items', lastDeletedItem.id) # 0]_vars

\* the step is toggleHistoryItem taking an item off the buy list
TakenOff == lastOp'.op = "offList"

\* the step delivers the DELETE echo of the toggleHistoryItem before it
OffListEcho ==
  /\ lastOp.op = "offList"
  /\ lastOp'.op = "DELETE"
  /\ lastOp'.id = lastOp.id
  /\ lastOp'.arg

(* C38: toggleHistoryItem on an item that is on the list and not completed   *)
(* leaves it in the Item Store with onList false and its name, category and  *)
(* purchaseCount unchanged, and the item stays so when the DELETE echo for   *)
(* its id is delivered.                                                      *)
C38_OffListKeepsHistory ==
  [][/\ TakenOff =>
          \E k \in 1..Len(items) :
            /\ items[k].id = lastOp'.id
            /\ k <= Len(items')
            /\ items'[k] = [items[k] EXCEPT !.onList = FALSE]
     /\ OffListEcho =>
          \E k \in 1..Len(items), j \in 1..Len(items') :
            /\ items[k].id = lastOp.id
            /\ items'[j] = items[k]]_vars

\* the step applies the fetched items of the initial load
FetchApplied == lastOp'.op = "getItems"

(* C39: an item added locally while authentication or the initial fetch is  *)
(* in progress is still in the Item Store after the fetched items are       *)
(* applied.                                                                 *)
C39_LocalAddSurvivesLoad ==
  [][FetchApplied =>
       \A k \in 1..Len(items) :
         items[k].id # RemoteId => FindById(items', items[k].id) # 0]_vars

\* the rows of the datastore that the items of the store mirror
RowsOfStore == {r \in rows : FindById(items, r.id) # 0}

(* C40: once a family is connected, every item of the Item Store that has a  *)
(* row in the remote datastore belongs to the family of the current          *)
(* familyId, and no step changes the family of a row.                        *)
C40_FamilyIsolation ==
  /\ [](familyId # Undefined => \A r \in RowsOfStore : r.family_id = familyId)
  /\ [][\A r \in rows, q \in rows' : q.id = r.id => q.family_id = r.family_id]_vars

====
